---- MODULE Spec2Model ----
(***************************************************************************)
(* A model of html4docx: the CSS cascade engine (css_parser.py), the list  *)
(* numbering of <ol>/<li> (h4d.py handle_li), the table layout resolver    *)
(* (h4d.py get_table_dimensions / handle_table) and the border resolver    *)
(* (h4d.py set_cell_borders).                                              *)
(*                                                                         *)
(* Each component has its own specification (SpecCss, SpecList, SpecTable, *)
(* SpecBorder) over the variables of the whole module; the variables of    *)
(* the other components stay at their constructed value.                   *)
(***************************************************************************)
EXTENDS Integers, Sequences, FiniteSets, TLC

VARIABLES
    \* ---- CSSParser (css_parser.py) ----
    tag_rules,      \* self.tag_rules   : tag   -> {property: value}
    class_rules,    \* self.class_rules : class -> {property: value}
    id_rules,       \* self.id_rules    : id    -> {property: value}
    all_rules,      \* self._all_rules  : list of (specificity, selector, styles)
    q,              \* the last style query: its arguments and what it returned
    \* ---- HtmlToDocx, list handling (h4d.py) ----
    tags_list,              \* self.tags['list'] : the open lists, 'ol' / 'ul'
    in_li,                  \* self.in_li
    list_restart_counter,   \* self.list_restart_counter
    current_ol_num_id,      \* self.current_ol_num_id (0 stands for None)
    list_num_ids,           \* self._list_num_ids : ol id -> numbering id
    num_count,              \* numbering definitions added to the document's numbering part
    paragraphs,             \* the list paragraphs added to the document, in order
    open,                   \* the open elements of the HTML being fed, outermost first
    n_elements,             \* start tags fed so far: the ordinal of the last element
    \* ---- HtmlToDocx, tables (h4d.py) ----
    table_soup,     \* the <table> being converted: its rows of cells (colspan, rowspan)
    table_done,     \* handle_table has run on it
    table_dims,     \* the (rows, cols) of the docx table added for it
    used_cells,     \* used_cells : the occupancy grid, and
    placed,         \* the cells placed: anchor row, column and spans
    marked_twice,   \* the slots marked used while already marked
    table_error,    \* the exception handle_table ended with, or "none"
    \* ---- HtmlToDocx, cell borders (h4d.py) ----
    cells,          \* the table cells styled by set_cell_borders: styles in, borders out
    \* ---- the value parsers (h4d.py, utils.py) ----
    calls,          \* the calls of parse_border_value / unit_converter / parse_color
                    \* made so far: argument and what the call returned or raised
    \* ---- HtmlToDocx, the entry points (h4d.py) ----
    api_call,       \* the last call of an entry point: its arguments and its outcome
    self_doc,       \* self.doc : the target of the last conversion, "none" before any
    n_resets,       \* how many times set_initial_attrs has reset the transformer
    documents,      \* per target document or cell: the conversions fed into it
    saved,          \* the destinations self.doc.save has written
    \* ---- CSSParser, selective loading (css_parser.py) ----
    used_tags,      \* self._used_tags
    used_classes,   \* self._used_classes
    used_ids,       \* self._used_ids
    \* ---- HtmlToDocx, the tag handlers (h4d.py) ----
    h,              \* the converter that is fed the document
    h_ref,          \* a second converter, fed the same document without its <img>
    \* ---- HtmlToDocx, the block elements (h4d.py) ----
    pending_div_style,  \* self.pending_div_style
    elements,           \* the elements that are open, outermost first
    doc,                \* the paragraphs and tables of self.doc
    paragraph,          \* self.paragraph: a position in doc, 0 for None
    tags,               \* the keys of self.tags other than span and list
    skip,               \* self.skip
    skip_tag,           \* self.skip_tag
    instances_to_skip,  \* self.instances_to_skip
    table_no,           \* self.table_no
    tables,             \* self.tables: the soups of the top-level tables, << >> for
                        \* one that is closed and is not looked at again
    input,              \* what is left to feed of the top-level table that is open
    include_html_comments,  \* self.include_html_comments
    \* ---- HtmlToDocx, one instance over several conversions (h4d.py) ----
    transformer,    \* the instance the caller keeps: what of it outlives a conversion
    outcome         \* the last conversion: its HTML, the options it began with, and
                    \* the document it gave

cssVars == <<tag_rules, class_rules, id_rules, all_rules, q>>

listVars == <<tags_list, in_li, list_restart_counter, current_ol_num_id,
              list_num_ids, num_count, paragraphs, open, n_elements>>

tableVars == <<table_soup, table_done, table_dims, used_cells, placed,
               marked_twice, table_error>>

borderVars == <<cells>>

valueVars == <<calls>>

apiVars == <<api_call, self_doc, n_resets, documents, saved>>

usedVars == <<used_tags, used_classes, used_ids>>

handlerVars == <<h, h_ref>>

instVars == <<transformer, outcome>>

skipVars == <<skip, skip_tag, instances_to_skip, table_no, tables, input,
              include_html_comments>>

blockVars == <<pending_div_style, elements, doc, paragraph, tags, skipVars>>

vars == <<cssVars, listVars, tableVars, borderVars, valueVars, apiVars, usedVars, instVars,
          handlerVars, blockVars>>

\* what the actions of one component leave alone: the other components
exceptCss ==
    <<listVars, tableVars, borderVars, valueVars, apiVars, usedVars, instVars, handlerVars,
      blockVars>>
exceptList ==
    <<cssVars, tableVars, borderVars, valueVars, apiVars, usedVars, instVars, handlerVars,
      blockVars>>
exceptTable ==
    <<cssVars, listVars, borderVars, valueVars, apiVars, usedVars, instVars, handlerVars,
      blockVars>>
exceptBorder ==
    <<cssVars, listVars, tableVars, valueVars, apiVars, usedVars, instVars, handlerVars,
      blockVars>>
exceptValue ==
    <<cssVars, listVars, tableVars, borderVars, apiVars, usedVars, instVars, handlerVars,
      blockVars>>
exceptApi ==
    <<cssVars, listVars, tableVars, borderVars, valueVars, usedVars, instVars, handlerVars,
      blockVars>>
exceptHandler ==
    <<cssVars, listVars, tableVars, borderVars, valueVars, apiVars, usedVars, instVars,
      blockVars>>
exceptBlock ==
    <<cssVars, listVars, tableVars, borderVars, valueVars, apiVars, usedVars, instVars,
      handlerVars>>
exceptUsed ==
    <<cssVars, listVars, tableVars, borderVars, valueVars, apiVars, instVars, handlerVars,
      blockVars>>
exceptInst ==
    <<cssVars, listVars, tableVars, borderVars, valueVars, apiVars, usedVars, handlerVars,
      blockVars>>

(***************************************************************************)
(* Python dicts as functions whose DOMAIN is the key set.                  *)
(***************************************************************************)
EmptyDict == << >>

\* dict.update(other): the keys of other override, the rest is kept
DictUpdate(d, other) ==
    [k \in (DOMAIN d) \cup (DOMAIN other) |->
        IF k \in DOMAIN other THEN other[k] ELSE d[k]]

\* d[key] = value
DictSet(d, key, value) ==
    [k \in (DOMAIN d) \cup {key} |-> IF k = key THEN value ELSE d[k]]

\* d.pop(key, None)
DictPop(d, key) == [k \in (DOMAIN d) \ {key} |-> d[k]]

(***************************************************************************)
(* CSS values.  A value string is modelled by its text and by the          *)
(* !important marker it carries: "none" (no marker), "lower" (the literal  *)
(* "!important") or "upper" (the marker in another letter case, e.g.       *)
(* "!IMPORTANT").                                                          *)
(***************************************************************************)
Val(text, marker) == [v |-> text, imp |-> marker]

\* '!important' in value.lower()
HasImportant(value) == value.imp # "none"

\* value.replace('!important', '').strip(): str.replace is case-sensitive,
\* so only the lower-case marker is removed
ReplaceImportant(value) ==
    IF value.imp = "lower" THEN Val(value.v, "none") ELSE value

\* A selector is its kind and its name: p, .hl, #s
Sel(kind, name) == [kind |-> kind, name |-> name]

(***************************************************************************)
(* Bounds and input alphabets of the CSS model.                            *)
(***************************************************************************)
MaxRules == 3       \* rules stored in the parser over its life
MaxSheetLen == 1    \* rule blocks in one parse_css call

NoId == "-"
TagNames == {"p"}
ClassNames == {"hl", "note"}
IdNames == {"s"}
Props == {"color", "width"}

Selectors ==
    {Sel("tag", n) : n \in TagNames} \cup {Sel("class", n) : n \in ClassNames}
        \cup {Sel("id", n) : n \in IdNames}

\* the rule blocks "selector { color: value }" a sheet of the model is made of:
\* every selector with two plain values, and the tag with an !important one
Block(selector, value) ==
    [selectors |-> <<selector>>,
     declarations |-> << [prop |-> "color", value |-> value] >>]

Blocks ==
    { Block(s, Val(c, "none")) : s \in Selectors, c \in {"red", "blue"} }
        \cup { Block(Sel("tag", "p"), Val("red", "lower")) }

SheetsUpTo(n) == UNION { [1..k -> Blocks] : k \in 1..n }

\* the class attribute of an element: the names in the order written
ClassAttrs ==
    {<< >>} \cup { <<c>> : c \in ClassNames }
        \cup { cs \in [1..2 -> ClassNames] : cs[1] # cs[2] }

Attrs == { [class |-> cs, id |-> i] : cs \in ClassAttrs, i \in IdNames \cup {NoId} }

\* the inline dictionaries utils.parse_inline_styles hands over (marker removed),
\* as pairs (inline_styles, inline_important)
InlineGreen == [k \in {"color"} |-> Val("green", "none")]
InlineGold == [k \in {"color"} |-> Val("gold", "none")]
InlineWidth == [k \in {"width"} |-> Val("5px", "none")]
InlineNormals == { EmptyDict, InlineGreen }
InlinePairs == { <<EmptyDict, EmptyDict>>, <<InlineGreen, InlineGold>>,
                 <<InlineWidth, EmptyDict>> }

(***************************************************************************)
(* CSSParser                                                               *)
(***************************************************************************)

\* _parse_declarations: the declarations of a block, in order, into a dict;
\* a declaration without a property name or without a value is skipped
RECURSIVE _parse_declarations(_)
_parse_declarations(declarations) ==
    IF declarations = << >> THEN EmptyDict
    ELSE LET n == Len(declarations)
             styles == _parse_declarations(SubSeq(declarations, 1, n - 1))
             d == declarations[n]
         IN  IF d.prop # "" /\ d.value.v # ""
             THEN DictSet(styles, d.prop, d.value)
             ELSE styles

\* _calculate_specificity: 100 per id, 10 per class, 1 per tag
_calculate_specificity(selector) ==
    CASE selector.kind = "id" -> 100
      [] selector.kind = "class" -> 10
      [] OTHER -> 1

\* table[name].update(styles), creating the entry when it is missing
StoreUnder(table, name, styles) ==
    DictSet(table, name,
            DictUpdate(IF name \in DOMAIN table THEN table[name] ELSE EmptyDict, styles))

\* _store_rule: the rule goes to the table of its selector kind
_store_rule(st, selector, styles) ==
    IF selector.name = "" THEN st
    ELSE CASE selector.kind = "id" ->
                [st EXCEPT !.id_rules = StoreUnder(@, selector.name, styles)]
           [] selector.kind = "class" ->
                [st EXCEPT !.class_rules = StoreUnder(@, selector.name, styles)]
           [] OTHER ->
                [st EXCEPT !.tag_rules = StoreUnder(@, selector.name, styles)]

\* the inner loop of parse_css over the selectors of one block
RECURSIVE StoreSelectors(_, _, _)
StoreSelectors(st, selectors, styles) ==
    IF selectors = << >> THEN st
    ELSE LET n == Len(selectors)
             before == StoreSelectors(st, SubSeq(selectors, 1, n - 1), styles)
             selector == selectors[n]
             appended == [before EXCEPT !.all_rules =
                            Append(@, [specificity |-> _calculate_specificity(selector),
                                       selector |-> selector,
                                       styles |-> styles])]
         IN  _store_rule(appended, selector, styles)

\* parse_css: every block of the content in source order
RECURSIVE parse_css(_, _)
parse_css(st, content) ==
    IF content = << >> THEN st
    ELSE LET n == Len(content)
             before == parse_css(st, SubSeq(content, 1, n - 1))
             block == content[n]
             styles == _parse_declarations(block.declarations)
         IN  IF styles = EmptyDict THEN before
             ELSE StoreSelectors(before, block.selectors, styles)

\* combined_styles.update(class_rules[c]) for every class of the attribute, in its order
RECURSIVE UpdateWithClasses(_, _, _)
UpdateWithClasses(combined, classes, rules) ==
    IF classes = << >> THEN combined
    ELSE LET n == Len(classes)
             before == UpdateWithClasses(combined, SubSeq(classes, 1, n - 1), rules)
         IN  IF classes[n] \in DOMAIN rules
             THEN DictUpdate(before, rules[classes[n]])
             ELSE before

\* get_styles_for_element: tag, then classes, then id, then inline
get_styles_for_element(st, tag, attrs, inline_styles) ==
    LET s1 == IF tag \in DOMAIN st.tag_rules THEN st.tag_rules[tag] ELSE EmptyDict
        s2 == UpdateWithClasses(s1, attrs.class, st.class_rules)
        s3 == IF attrs.id # NoId /\ attrs.id \in DOMAIN st.id_rules
              THEN DictUpdate(s2, st.id_rules[attrs.id])
              ELSE s2
    IN  DictUpdate(s3, inline_styles)

\* applicable_rules.append((specificity, class_rules[c])) for every class of the attribute
RECURSIVE CollectClasses(_, _)
CollectClasses(classes, rules) ==
    IF classes = << >> THEN << >>
    ELSE LET n == Len(classes)
             before == CollectClasses(SubSeq(classes, 1, n - 1), rules)
         IN  IF classes[n] \in DOMAIN rules
             THEN Append(before,
                         [specificity |-> _calculate_specificity(Sel("class", classes[n])),
                          styles |-> rules[classes[n]]])
             ELSE before

\* the rules collected for an element: tag, classes (attribute order), id
applicable_rules(st, tag, attrs) ==
    (IF tag \in DOMAIN st.tag_rules
     THEN << [specificity |-> _calculate_specificity(Sel("tag", tag)),
              styles |-> st.tag_rules[tag]] >>
     ELSE << >>)
    \o CollectClasses(attrs.class, st.class_rules)
    \o (IF attrs.id # NoId /\ attrs.id \in DOMAIN st.id_rules
        THEN << [specificity |-> _calculate_specificity(Sel("id", attrs.id)),
                 styles |-> st.id_rules[attrs.id]] >>
        ELSE << >>)

\* insert r after every entry whose key is <= its key (a stable insertion)
RECURSIVE InsertBySpecificity(_, _)
InsertBySpecificity(sorted, r) ==
    IF sorted = << >> THEN << r >>
    ELSE LET n == Len(sorted)
         IN  IF sorted[n].specificity <= r.specificity
             THEN Append(sorted, r)
             ELSE Append(InsertBySpecificity(SubSeq(sorted, 1, n - 1), r), sorted[n])

\* mutant: the sort in descending order (reverse=True)
RECURSIVE SortedDescending(_)
SortedDescending(rules) ==
    IF rules = << >> THEN << >>
    ELSE LET n == Len(rules)
             rest == SortedDescending(SubSeq(rules, 1, n - 1))
             below == { i \in DOMAIN rest : rest[i].specificity < rules[n].specificity }
             k == IF below = {} THEN Len(rest) + 1
                  ELSE CHOOSE i \in below : \A j \in below : i <= j
         IN  SubSeq(rest, 1, k - 1) \o << rules[n] >> \o SubSeq(rest, k, Len(rest))

\* sorted(applicable_rules, key=lambda x: x[0]): ascending and stable
RECURSIVE SortedBySpecificity(_)
SortedBySpecificity(rules) ==
    IF rules = << >> THEN << >>
    ELSE LET n == Len(rules)
         IN  InsertBySpecificity(SortedBySpecificity(SubSeq(rules, 1, n - 1)), rules[n])

\* the declarations of the sorted rules, split by the !important marker:
\* of several rules setting a property in one map, the last one stays
RECURSIVE SplitByImportant(_)
SplitByImportant(rules) ==
    IF rules = << >> THEN [normal |-> EmptyDict, important |-> EmptyDict]
    ELSE LET n == Len(rules)
             before == SplitByImportant(SubSeq(rules, 1, n - 1))
             styles == rules[n].styles
             imp == { p \in DOMAIN styles : HasImportant(styles[p]) }
         IN  [normal |->
                DictUpdate(before.normal, [p \in (DOMAIN styles) \ imp |-> styles[p]]),
              important |->
                DictUpdate(before.important, [p \in imp |-> ReplaceImportant(styles[p])])]

\* mutant: the inline !important declarations land in the normal map as well
WithImportantInlineLeaks(st, tag, attrs, inline_styles, inline_important) ==
    LET cascade == SplitByImportant(SortedBySpecificity(applicable_rules(st, tag, attrs)))
    IN  [normal |-> DictUpdate(DictUpdate(cascade.normal, inline_styles), inline_important),
         important |-> DictUpdate(cascade.important, inline_important)]

\* get_styles_for_element_with_important
get_styles_for_element_with_important(st, tag, attrs, inline_styles, inline_important) ==
    LET cascade == SplitByImportant(SortedBySpecificity(applicable_rules(st, tag, attrs)))
    IN  [normal |-> DictUpdate(cascade.normal, inline_styles),
         important |-> DictUpdate(cascade.important, inline_important)]

(***************************************************************************)
(* The CSS parser as a state machine: parse_css calls and style queries.   *)
(* q is the query whose result is in the caller's hands (its arguments and *)
(* what it returned); the caller is sequential, so it makes its next call  *)
(* once it is done with that result (Return).                              *)
(***************************************************************************)
NoQuery == [op |-> "none"]

\* the parser object as one record
Parser ==
    [tag_rules |-> tag_rules, class_rules |-> class_rules,
     id_rules |-> id_rules, all_rules |-> all_rules]

\* CSSParser.__init__
CssInit ==
    /\ tag_rules = EmptyDict
    /\ class_rules = EmptyDict
    /\ id_rules = EmptyDict
    /\ all_rules = << >>
    /\ q = NoQuery

\* parser.parse_css(content)
ParseCss ==
    \E content \in SheetsUpTo(MaxSheetLen) :
        LET new == parse_css(Parser, content)
        IN  /\ q = NoQuery
            /\ Len(new.all_rules) <= MaxRules
            /\ tag_rules' = new.tag_rules
            /\ class_rules' = new.class_rules
            /\ id_rules' = new.id_rules
            /\ all_rules' = new.all_rules
            /\ q' = NoQuery
            /\ UNCHANGED exceptCss

\* parser.get_styles_for_element(tag, attrs, inline_styles)
GetStyles ==
    \E tag \in TagNames, attrs \in Attrs, inline_styles \in InlineNormals :
        /\ q = NoQuery
        /\ q' = [op |-> "plain", tag |-> tag, attrs |-> attrs,
                 inline_styles |-> inline_styles, inline_important |-> EmptyDict,
                 normal |-> get_styles_for_element(Parser, tag, attrs, inline_styles),
                 important |-> EmptyDict]
        /\ UNCHANGED <<tag_rules, class_rules, id_rules, all_rules>>
        /\ UNCHANGED exceptCss

\* parser.get_styles_for_element_with_important(tag, attrs, inline_styles, inline_important)
GetStylesWithImportant ==
    \E tag \in TagNames, attrs \in Attrs, inline \in InlinePairs :
        LET r == get_styles_for_element_with_important(
                     Parser, tag, attrs, inline[1], inline[2])
        IN  /\ q = NoQuery
            /\ q' = [op |-> "important", tag |-> tag, attrs |-> attrs,
                     inline_styles |-> inline[1],
                     inline_important |-> inline[2],
                     normal |-> r.normal, important |-> r.important]
            /\ UNCHANGED <<tag_rules, class_rules, id_rules, all_rules>>
            /\ UNCHANGED exceptCss

\* the caller is done with the returned dictionaries
Return ==
    /\ q # NoQuery
    /\ q' = NoQuery
    /\ UNCHANGED <<tag_rules, class_rules, id_rules, all_rules>>
    /\ UNCHANGED exceptCss

CssNext == ParseCss \/ GetStyles \/ GetStylesWithImportant \/ Return

(***************************************************************************)
(* Sheets whose declarations carry the marker in either letter case.       *)
(***************************************************************************)
Markers == {"none", "lower", "upper"}

\* "selector { color: red }", with "!important" or "!IMPORTANT" after the value or
\* without
MarkedBlocks == { Block(s, Val("red", marker)) : s \in Selectors, marker \in Markers }

\* parser.parse_css(content) on such a sheet
ParseMarkedCss ==
    \E block \in MarkedBlocks :
        LET new == parse_css(Parser, <<block>>)
        IN  /\ q = NoQuery
            /\ Len(new.all_rules) <= MaxRules
            /\ tag_rules' = new.tag_rules
            /\ class_rules' = new.class_rules
            /\ id_rules' = new.id_rules
            /\ all_rules' = new.all_rules
            /\ q' = NoQuery
            /\ UNCHANGED exceptCss

MarkedCssNext == ParseMarkedCss \/ GetStylesWithImportant \/ Return

\* C40 (as claimed): no value of the important map and no value of the normal map
\* returned by get_styles_for_element_with_important carries the marker, in either
\* letter case.
C40_NoMarkerInEitherMap ==
    q.op = "important" =>
        /\ \A prop \in DOMAIN q.important : q.important[prop].imp = "none"
        /\ \A prop \in DOMAIN q.normal : q.normal[prop].imp = "none"

(***************************************************************************)
(* What the stylesheet source says about the queried element, read from    *)
(* _all_rules (the rules in source order), not from the lookup tables.     *)
(***************************************************************************)
Range(seq) == { seq[i] : i \in DOMAIN seq }

SetMax(S) == CHOOSE x \in S : \A y \in S : y <= x

\* the rule's selector matches the queried element
Matches(rule, query) ==
    CASE rule.selector.kind = "tag" -> rule.selector.name = query.tag
      [] rule.selector.kind = "class" -> rule.selector.name \in Range(query.attrs.class)
      [] OTHER -> rule.selector.name = query.attrs.id

\* the positions in the source of the matching rules that declare prop
Declaring(prop) ==
    { i \in DOMAIN all_rules :
        Matches(all_rules[i], q) /\ prop \in DOMAIN all_rules[i].styles }

\* those of the highest specificity
TopDeclaring(prop) ==
    LET D == Declaring(prop)
        top == SetMax({ all_rules[i].specificity : i \in D })
    IN  { i \in D : all_rules[i].specificity = top }

\* the property is declared for the element by the sheet, never with !important,
\* and not by the inline style
SheetDecides(prop) ==
    /\ q.op # "none"
    /\ Declaring(prop) # {}
    /\ \A i \in Declaring(prop) : ~HasImportant(all_rules[i].styles[prop])
    /\ prop \notin DOMAIN q.inline_styles

\* the declaration of the last rule in the source among those of highest specificity
CascadeValue(prop) == all_rules[SetMax(TopDeclaring(prop))].styles[prop]

\* C1: a property declared, without !important, by matching rules of different
\* specificity (no two different selectors share the highest one) resolves to the
\* value of the highest-specificity rule, whatever the order of the rules in the
\* sheet, in get_styles_for_element and in the normal map of
\* get_styles_for_element_with_important.
C1_HighestSpecificityWins ==
    \A prop \in Props :
        ( /\ SheetDecides(prop)
          /\ Cardinality({ all_rules[i].selector : i \in TopDeclaring(prop) }) = 1 )
        => /\ prop \in DOMAIN q.normal
           /\ q.normal[prop] = CascadeValue(prop)

\* C1 witness: #s, .hl and p declare color in that source order, with the id's
\* value different from the others, and <p class="hl" id="s"> resolves to the id's
C1_Witness ==
    /\ q.op = "important"
    /\ q.inline_styles = EmptyDict
    /\ SheetDecides("color")
    /\ Len(all_rules) = 3
    /\ all_rules[1].selector.kind = "id"
    /\ all_rules[2].selector.kind = "class"
    /\ all_rules[3].selector.kind = "tag"
    /\ Declaring("color") = {1, 2, 3}
    /\ all_rules[1].styles["color"] # all_rules[3].styles["color"]
    /\ all_rules[1].styles["color"] # all_rules[2].styles["color"]
    /\ q.normal["color"] = all_rules[1].styles["color"]

\* C2 (as claimed): when the rules of highest specificity that declare a property
\* for the element tie (one selector repeated, or two class selectors of an element
\* carrying both classes), the value is the one of the rule that comes later in the
\* source, for every order of the class attribute.
C2_LaterRuleWinsTie ==
    \A prop \in Props :
        ( /\ SheetDecides(prop)
          /\ Cardinality(TopDeclaring(prop)) >= 2 )
        => /\ prop \in DOMAIN q.normal
           /\ q.normal[prop] = CascadeValue(prop)

\* C3: in get_styles_for_element_with_important the inline normal declarations
\* override the normal map only, the inline !important declarations override the
\* important map only, and a property not mentioned inline keeps its cascade value
\* (the value of the same query without inline styles) in both maps.
C3_InlineOverridesOwnTier ==
    q.op = "important" =>
        LET cascade == get_styles_for_element_with_important(
                           Parser, q.tag, q.attrs, EmptyDict, EmptyDict)
        IN  /\ DOMAIN q.normal = (DOMAIN cascade.normal) \cup (DOMAIN q.inline_styles)
            /\ DOMAIN q.important =
                   (DOMAIN cascade.important) \cup (DOMAIN q.inline_important)
            /\ \A prop \in DOMAIN q.normal :
                   q.normal[prop] = IF prop \in DOMAIN q.inline_styles
                                    THEN q.inline_styles[prop]
                                    ELSE cascade.normal[prop]
            /\ \A prop \in DOMAIN q.important :
                   q.important[prop] = IF prop \in DOMAIN q.inline_important
                                       THEN q.inline_important[prop]
                                       ELSE cascade.important[prop]

\* C3 witness: the sheet gives the element a normal and an !important color, the
\* element's style attribute a normal and an !important color too
C3_Witness ==
    /\ q.op = "important"
    /\ "color" \in DOMAIN q.inline_styles
    /\ "color" \in DOMAIN q.inline_important
    /\ LET cascade == get_styles_for_element_with_important(
                          Parser, q.tag, q.attrs, EmptyDict, EmptyDict)
       IN  /\ "color" \in DOMAIN cascade.normal
           /\ "color" \in DOMAIN cascade.important
           /\ cascade.normal["color"] # q.inline_styles["color"]
           /\ cascade.important["color"] # q.inline_important["color"]
    /\ q.normal["color"] = q.inline_styles["color"]
    /\ q.important["color"] = q.inline_important["color"]


(***************************************************************************)
(* HtmlToDocx: ordered and unordered lists.                                *)
(*                                                                         *)
(* The HTML fed to the parser is well nested (run_process feeds the output *)
(* of BeautifulSoup): `open` is the path of open elements, each with its   *)
(* tag and its ordinal in the document; <ol>/<ul> stand at the top level   *)
(* or in an <li>, an <li> stands in a list.  None is modelled by 0: the    *)
(* ids handed out by list_restart_counter start at 1, and the code reads   *)
(* current_ol_num_id through `or -1`, which treats None and 0 alike.       *)
(***************************************************************************)
MaxLists == 4       \* <ol> and <ul> elements in the document
MaxItems == 4       \* <li> elements in the document
MaxDepth == 4       \* open elements at any time

None == 0

\* set_initial_attrs: the list state of a fresh conversion
ListInit ==
    /\ tags_list = << >>
    /\ in_li = FALSE
    /\ list_restart_counter = 0
    /\ current_ol_num_id = None
    /\ list_num_ids = EmptyDict
    /\ num_count = 0
    /\ paragraphs = << >>
    /\ open = << >>
    /\ n_elements = 0

\* the innermost open element of the HTML, or the document itself
Parent == IF open = << >> THEN [tag |-> "body", eid |-> 0] ELSE open[Len(open)]

\* utils.remove_last_occurence(ls, x)
remove_last_occurence(ls, x) ==
    LET k == SetMax({ i \in DOMAIN ls : ls[i] = x })
    IN  SubSeq(ls, 1, k - 1) \o SubSeq(ls, k + 1, Len(ls))

\* min(a, b)
Min(a, b) == IF a <= b THEN a ELSE b

\* handle_li: a list paragraph; for an ordered list its numbering id is the one
\* cached under the key of the current <ol>, or a new definition cached under it
handle_li ==
    LET list_depth == IF Len(tags_list) = 0 THEN 1 ELSE Len(tags_list)
        list_type == IF tags_list # << >> THEN tags_list[Len(tags_list)] ELSE "ul"
        level == Min(list_depth, 3)
        ol_id == IF current_ol_num_id = None THEN -1 ELSE current_ol_num_id
        first == ol_id \notin DOMAIN list_num_ids
        new_num_id == IF first THEN num_count + 1 ELSE list_num_ids[ol_id]
    IN  /\ in_li' = TRUE
        /\ IF list_type = "ol"
           THEN /\ num_count' = IF first THEN num_count + 1 ELSE num_count
                /\ list_num_ids' = IF first THEN DictSet(list_num_ids, ol_id, new_num_id)
                                   ELSE list_num_ids
                /\ paragraphs' = Append(paragraphs,
                       [list |-> Parent.eid, type |-> list_type,
                        num_id |-> new_num_id, ilvl |-> level - 1])
           ELSE /\ UNCHANGED <<num_count, list_num_ids>>
                /\ paragraphs' = Append(paragraphs,
                       [list |-> Parent.eid, type |-> list_type,
                        num_id |-> None, ilvl |-> level - 1])

\* handle_starttag(tag) for <ol>, <ul> and <li>
StartTag(tag) ==
    /\ Len(open) < MaxDepth
    /\ IF tag = "li"
       THEN /\ Parent.tag \in {"ol", "ul"}
            /\ Len(paragraphs) < MaxItems
       ELSE /\ Parent.tag \in {"body", "li"}
            /\ n_elements - Len(paragraphs) < MaxLists
    /\ UNCHANGED exceptList
    /\ n_elements' = n_elements + 1
    /\ open' = Append(open, [tag |-> tag, eid |-> n_elements + 1])
    /\ CASE tag = "ol" ->
              /\ list_restart_counter' = list_restart_counter + 1
              /\ current_ol_num_id' = list_restart_counter + 1
              /\ tags_list' = Append(tags_list, tag)
              /\ UNCHANGED <<in_li, list_num_ids, num_count, paragraphs>>
         [] tag = "ul" ->
              /\ current_ol_num_id' = None
              /\ tags_list' = Append(tags_list, tag)
              /\ UNCHANGED <<list_restart_counter, in_li, list_num_ids,
                             num_count, paragraphs>>
         [] OTHER ->
              /\ handle_li
              /\ UNCHANGED <<list_restart_counter, current_ol_num_id, tags_list>>

\* handle_endtag(tag) for </ol>, </ul> and </li>
EndTag(tag) ==
    /\ open # << >>
    /\ Parent.tag = tag
    /\ open' = SubSeq(open, 1, Len(open) - 1)
    /\ UNCHANGED exceptList
    /\ CASE tag = "ol" ->
              /\ tags_list' = remove_last_occurence(tags_list, tag)
              /\ list_num_ids' = DictPop(list_num_ids, current_ol_num_id)
              /\ current_ol_num_id' = None
              /\ UNCHANGED <<in_li, list_restart_counter, num_count, paragraphs,
                             n_elements>>
         [] tag = "ul" ->
              /\ tags_list' = remove_last_occurence(tags_list, tag)
              /\ UNCHANGED <<in_li, list_restart_counter, current_ol_num_id,
                             list_num_ids, num_count, paragraphs, n_elements>>
         [] OTHER ->
              /\ in_li' = FALSE
              /\ UNCHANGED <<tags_list, list_restart_counter, current_ol_num_id,
                             list_num_ids, num_count, paragraphs, n_elements>>

ListTags == {"ol", "ul", "li"}

ListNext ==
    \/ \E tag \in ListTags : StartTag(tag)
    \/ \E tag \in ListTags : EndTag(tag)

(***************************************************************************)
(* HtmlToDocx: tables.  A table is the sequence of its rows, a row the     *)
(* sequence of its <td>/<th> cells, a cell its colspan and rowspan.        *)
(* Rows, columns and grid slots are numbered from 0 as in the code.        *)
(***************************************************************************)
MaxTableRows == 3   \* <tr> rows of a table
MaxArea == 6        \* sum over the cells of a table of colspan x rowspan

Cell(colspan, rowspan) == [colspan |-> colspan, rowspan |-> rowspan]

\* the cells of at most the given area, spans >= 1
CellsUpTo(area) ==
    { cell \in [colspan : 1..area, rowspan : 1..area] :
        cell.colspan * cell.rowspan <= area }

RECURSIVE SeqSum(_)
SeqSum(seq) == IF seq = << >> THEN 0 ELSE seq[1] + SeqSum(Tail(seq))

RowArea(row) == SeqSum([i \in DOMAIN row |-> row[i].colspan * row[i].rowspan])

\* the rows whose cells have at most the given area in total
RECURSIVE RowsUpTo(_)
RowsUpTo(area) ==
    {<< >>} \cup
    UNION { { <<cell>> \o rest : rest \in RowsUpTo(area - cell.colspan * cell.rowspan) }
            : cell \in CellsUpTo(area) }

\* the tables of at most n rows and at most the given area in total
RECURSIVE TablesUpTo(_, _)
TablesUpTo(n, area) ==
    IF n = 0 THEN {<< >>}
    ELSE {<< >>} \cup
         UNION { { <<row>> \o rest : rest \in TablesUpTo(n - 1, area - RowArea(row)) }
                 : row \in RowsUpTo(area) }

Max(a, b) == IF a >= b THEN a ELSE b

\* the loop of get_table_dimensions over the cells of a row: the sum of the
\* colspans, and max_rows raised by every rowspan > 1
RECURSIVE RowDimensions(_, _, _)
RowDimensions(cols, row_idx, max_rows) ==
    IF cols = << >> THEN [row_col_count |-> 0, max_rows |-> max_rows]
    ELSE LET n == Len(cols)
             before == RowDimensions(SubSeq(cols, 1, n - 1), row_idx, max_rows)
             col == cols[n]
         IN  [row_col_count |-> before.row_col_count + col.colspan,
              max_rows |-> IF col.rowspan > 1
                           THEN Max(before.max_rows, row_idx + col.rowspan)
                           ELSE before.max_rows]

\* the loop of get_table_dimensions over the rows; rows[k] has row_idx k - 1
RECURSIVE TableDimensions(_, _)
TableDimensions(rows, k) ==
    IF k = 0 THEN [max_rows |-> Len(rows), max_cols |-> 0]
    ELSE LET before == TableDimensions(rows, k - 1)
             d == RowDimensions(rows[k], k - 1, before.max_rows)
         IN  [max_rows |-> d.max_rows,
              max_cols |-> Max(before.max_cols, d.row_col_count)]

\* a table given one row more for every row its tallest cell spans, wherever that
\* cell is
DimensionsAddingSpans(soup) ==
    IF soup = << >> THEN <<0, 0>>
    ELSE <<Len(soup) + SetMax({1} \cup UNION { { soup[k][i].rowspan : i \in DOMAIN soup[k] }
                                               : k \in DOMAIN soup }) - 1,
           TableDimensions(soup, Len(soup)).max_cols>>

\* get_table_dimensions: (rows, cols), (0, 0) for a table without rows
get_table_dimensions(soup) ==
    IF soup = << >> THEN <<0, 0>>
    ELSE LET d == TableDimensions(soup, Len(soup))
         IN  <<d.max_rows, d.max_cols>>

\* while used_cells[cell_row][col_offset]: col_offset += 1
\* -1 when the loop runs off the end of the row (IndexError)
RECURSIVE SkipUsed(_, _, _, _)
SkipUsed(used, cell_row, col_offset, ncols) ==
    IF col_offset >= ncols THEN -1
    ELSE IF used[cell_row][col_offset]
         THEN SkipUsed(used, cell_row, col_offset + 1, ncols)
         ELSE col_offset

\* the body of the inner loop of handle_table for one cell: find its column, mark
\* its slots.  used_cells[cell_row][col_offset] of the skip loop and used_cells[r][c]
\* of the marking loop are addressed within the rows x cols grid or the handler ends
\* with an IndexError.  A slot already marked is marked again: neither the marking
\* loop nor the merge of the docx cells looks at used_cells.
PlaceCell(s, cell_row, col, ncols) ==
    IF s.error # "none" THEN s
    ELSE LET current_col == SkipUsed(s.used, cell_row, s.col_offset, ncols)
             spanning == col.rowspan > 1 \/ col.colspan > 1
             slots == IF spanning
                      THEN { <<r, c>> : r \in cell_row..(cell_row + col.rowspan - 1),
                                        c \in current_col..(current_col + col.colspan - 1) }
                      ELSE { <<cell_row, current_col>> }
         IN  IF current_col = -1 \/ current_col + col.colspan > ncols
             THEN [s EXCEPT !.error = "IndexError"]
             ELSE [ used |-> [r \in DOMAIN s.used |-> [c \in DOMAIN s.used[r] |->
                                 s.used[r][c] \/ <<r, c>> \in slots]],
                    placed |-> Append(s.placed,
                                 [row |-> cell_row, col |-> current_col,
                                  rowspan |-> col.rowspan, colspan |-> col.colspan]),
                    twice |-> s.twice \cup { x \in slots : s.used[x[1]][x[2]] },
                    col_offset |-> current_col + col.colspan,
                    error |-> "none" ]

\* the inner loop: the cells of one row, col_offset starting at 0
RECURSIVE PlaceRow(_, _, _, _)
PlaceRow(s, cell_row, cols, ncols) ==
    IF cols = << >> THEN [s EXCEPT !.col_offset = 0]
    ELSE LET n == Len(cols)
         IN  PlaceCell(PlaceRow(s, cell_row, SubSeq(cols, 1, n - 1), ncols),
                       cell_row, cols[n], ncols)

\* the outer loop: the first k rows of the table; rows[k] has cell_row k - 1
RECURSIVE PlaceRows(_, _, _, _)
PlaceRows(s, rows, k, ncols) ==
    IF k = 0 THEN s
    ELSE PlaceRow(PlaceRows(s, rows, k - 1, ncols), k - 1, rows[k], ncols)

\* handle_table: the docx table of get_table_dimensions, then every cell placed
handle_table(soup) ==
    LET dims == get_table_dimensions(soup)
        start == [ used |-> [r \in 0..(dims[1] - 1) |-> [c \in 0..(dims[2] - 1) |-> FALSE]],
                   placed |-> << >>, twice |-> {}, col_offset |-> 0, error |-> "none" ]
    IN  [dims |-> dims, end |-> PlaceRows(start, soup, Len(soup), dims[2])]

\* set_initial_attrs / get_tables: a table of the document, not yet converted
TableInit ==
    /\ table_soup \in TablesUpTo(MaxTableRows, MaxArea)
    /\ table_done = FALSE
    /\ table_dims = <<0, 0>>
    /\ used_cells = << >>
    /\ placed = << >>
    /\ marked_twice = {}
    /\ table_error = "none"

\* the idle table state of the other specifications
NoTable ==
    /\ table_soup = << >>
    /\ table_done = FALSE
    /\ table_dims = <<0, 0>>
    /\ used_cells = << >>
    /\ placed = << >>
    /\ marked_twice = {}
    /\ table_error = "none"

\* handle_starttag('table') -> handle_table
HandleTable ==
    /\ ~table_done
    /\ LET r == handle_table(table_soup)
       IN  /\ table_dims' = r.dims
           /\ used_cells' = r.end.used
           /\ placed' = r.end.placed
           /\ marked_twice' = r.end.twice
           /\ table_error' = r.end.error
    /\ table_done' = TRUE
    /\ UNCHANGED table_soup
    /\ UNCHANGED exceptTable

TableNext == HandleTable

\* what the claim computes from the table: the widest row, in colspans
WidestRow(soup) ==
    LET widths == { SeqSum([i \in DOMAIN soup[k] |-> soup[k][i].colspan]) : k \in DOMAIN soup }
    IN  SetMax(widths \cup {0})

\* the lowest row a cell reaches: its row index + its rowspan
LowestReach(soup) ==
    LET reach == UNION { { (k - 1) + soup[k][i].rowspan : i \in DOMAIN soup[k] }
                         : k \in DOMAIN soup }
    IN  SetMax(reach \cup {0})

\* C6: the docx table has columns = the maximum over the rows of the sum of the
\* colspans of the row's cells, and rows = max(number of <tr>, maximum over the cells
\* of row index + rowspan); a table without rows is 0 x 0.
C6_TableDimensions ==
    table_done =>
        /\ table_dims[2] = WidestRow(table_soup)
        /\ table_dims[1] = Max(Len(table_soup), LowestReach(table_soup))
        /\ table_soup = << >> => table_dims = <<0, 0>>

\* C6 witness: <table><tr><td/></tr><tr><td/><td/></tr></table> gives a 2 x 2
\* table whose slot (0, 1) is left empty
C6_Witness ==
    /\ table_done
    /\ table_soup = << <<Cell(1, 1)>>, <<Cell(1, 1), Cell(1, 1)>> >>
    /\ table_dims = <<2, 2>>
    /\ table_error = "none"
    /\ ~used_cells[0][1]
    /\ used_cells[0][0] /\ used_cells[1][0] /\ used_cells[1][1]

\* two placed cells whose rowspan x colspan rectangles share a slot
Overlap(a, b) ==
    /\ a.row < b.row + b.rowspan /\ b.row < a.row + a.rowspan
    /\ a.col < b.col + b.colspan /\ b.col < a.col + a.colspan

\* C7 (as claimed): once handle_table has placed all the cells of a table, the
\* rectangles of the placed cells are pairwise disjoint.
C7_PlacedCellsDisjoint ==
    (table_done /\ table_error = "none") =>
        \A i, j \in DOMAIN placed : i # j => ~Overlap(placed[i], placed[j])

\* C8 (as claimed): when a cell claims a slot that is already marked used, table
\* processing ends with an error instead of marking the slot again.
C8_ConflictRaises ==
    (table_done /\ marked_twice # {}) => table_error # "none"

\* C9 (as claimed): for every table with colspan and rowspan values >= 1, placing
\* the cells never addresses a row or column outside the rows x cols grid of
\* get_table_dimensions (no IndexError).
C9_CellsFitGrid ==
    table_done => table_error # "IndexError"

(***************************************************************************)
(* HtmlToDocx.set_cell_borders.                                            *)
(*                                                                         *)
(* A CSS value is the sequence of its whitespace-separated words           *)
(* (str.split()).  A word is a length "<num><unit>" or any other word      *)
(* (keyword, colour, piece of a colour).  Sizes are in 1/1000 pt, so the   *)
(* factors of border_unit_converter are whole numbers; a colour is its     *)
(* RGB triple, which rgb_to_hex formats one-to-one.                        *)
(***************************************************************************)
Length(num, unit) == [t |-> "len", num |-> num, unit |-> unit, w |-> ""]
Word(w) == [t |-> "word", num |-> 0, unit |-> "", w |-> w]

\* a border property: "border" is (all, all), "border-width" (all, width),
\* "border-top" (top, all), "border-top-width" (top, width)
Prop(side, sub) == [side |-> side, sub |-> sub]

NoSize == -1                    \* None, as a size
DEFAULT_BORDER_SIZE == 0
DEFAULT_BORDER_COLOR == <<0, 0, 0>>
DEFAULT_BORDER_STYLE == "single"
OnePt == 1000                   \* size = 1.0
PxFactor == 750                 \* value * 0.75
CmFactor == 28350               \* value * 28.35
InFactor == 72000               \* value * 72
PtFactor == 1000                \* value
EmFactor == 12000               \* value * 12
PercentFactor == 55             \* MAX_INDENT * (value / 100), MAX_INDENT = 5.5

border_sides == <<"top", "right", "bottom", "left">>
SideSet == Range(border_sides)

\* constants.default_borders()
default_borders ==
    [side \in SideSet |-> [size |-> DEFAULT_BORDER_SIZE,
                           color |-> DEFAULT_BORDER_COLOR,
                           style |-> DEFAULT_BORDER_STYLE]]

\* constants.BORDER_STYLES
BORDER_STYLES ==
    [w \in {"none", "hidden", "initial", "solid", "dotted", "dashed", "double",
            "inset", "outset"} |->
        CASE w \in {"none", "hidden", "initial"} -> "none"
          [] w = "solid" -> "single"
          [] OTHER -> w]

\* constants.BORDER_KEYWORDS
BORDER_KEYWORDS ==
    [w \in {"thin", "medium", "thick", "0"} |->
        CASE w = "thin" -> Length(1, "px")
          [] w = "medium" -> Length(3, "px")
          [] w = "thick" -> Length(5, "px")
          [] OTHER -> Length(0, "px")]

\* border_width_pattern: ^[0-9]*\.?[0-9]+(px|pt|cm|in|rem|em|%)$
border_width_pattern(word) ==
    word.t = "len" /\ word.unit \in {"px", "pt", "cm", "in", "rem", "em", "%"}

\* the colour names of html4docx.colors.Color
NamedColors ==
    [w \in {"red", "blue"} |-> IF w = "red" THEN <<255, 0, 0>> ELSE <<0, 0, 255>>]

\* the words of the model that hold the letters "rgb", and those that start with "#"
RgbWords == {"rgb(255,0,0)", "rgb(255,", "rgb()"}
HexWords == {"#00f"}

\* utils.is_color, of one word
is_color(word) ==
    word.t = "word" /\ (word.w \in RgbWords \/ word.w \in HexWords
                        \/ word.w = "currentcolor" \/ word.w \in DOMAIN NamedColors)

\* the values that hold a whole rgb(r, g, b), with or without blanks in it
RgbValues == { <<Word("rgb(255,0,0)")>>, <<Word("rgb(255,"), Word("0,"), Word("0)")>> }

\* utils.parse_color raises ValueError: int('') on a piece of an rgb(...) value
parse_color_raises(value) ==
    /\ \E i \in DOMAIN value : value[i].w \in RgbWords
    /\ value \notin RgbValues

\* utils.parse_color of a value: rgb(...) by its digits (whatever the blanks in
\* it), #rgb expanded, a colour name, and black for anything else
parse_color(value) ==
    CASE value = << >> -> <<0, 0, 0>>
      [] value \in RgbValues -> <<255, 0, 0>>
      [] value # << >> /\ value \notin RgbValues /\ value[1].w = "#00f" -> <<0, 0, 255>>
      [] Len(value) = 1 /\ value[1].w \in DOMAIN NamedColors -> NamedColors[value[1].w]
      [] OTHER -> <<0, 0, 0>>

\* parse_border_style: the Word border style, 'none' for an unknown style
parse_border_style(value) ==
    IF Len(value) = 1 /\ value[1].t = "word" /\ value[1].w \in DOMAIN BORDER_STYLES
    THEN BORDER_STYLES[value[1].w]
    ELSE "none"

\* check_unit_keywords
check_unit_keywords(word) ==
    IF word.t = "word" /\ word.w \in DOMAIN BORDER_KEYWORDS
    THEN BORDER_KEYWORDS[word.w]
    ELSE word

\* the unit factors of border_unit_converter, None for any other unit
ConvertUnit(word) ==
    CASE word.unit = "px" -> word.num * PxFactor
      [] word.unit = "cm" -> word.num * CmFactor
      [] word.unit = "in" -> word.num * InFactor
      [] word.unit = "pt" -> word.num * PtFactor
      [] word.unit \in {"rem", "em"} -> word.num * EmFactor
      [] word.unit = "%" -> word.num * PercentFactor
      [] OTHER -> NoSize

\* float(...) of the value without its letters: ValueError unless a number is left
ConvertWord(word) ==
    IF word.t # "len" THEN [error |-> "ValueError", size |-> NoSize]
    ELSE [error |-> "none", size |-> ConvertUnit(word)]

\* border_unit_converter: the size of a value in 1/1000 pt; NoSize (None) for an
\* unsupported unit; float() raises ValueError on a value that is no single number
border_unit_converter(unit_value) ==
    IF unit_value = << >> THEN [error |-> "none", size |-> DEFAULT_BORDER_SIZE]
    ELSE IF Len(unit_value) > 1 THEN [error |-> "ValueError", size |-> NoSize]
    ELSE ConvertWord(check_unit_keywords(unit_value[1]))

\* a variant without the default: None stays None
KeepConverted(converted) == converted

\* x or default_size
OrDefault(converted) ==
    [error |-> converted.error,
     size |-> IF converted.size = NoSize \/ converted.size = 0
              THEN DEFAULT_BORDER_SIZE ELSE converted.size]

\* border_unit_converter(v) or default_size
SizeOrDefault(unit_value) == OrDefault(border_unit_converter(unit_value))

\* size = border_unit_converter(clean_part) or default_size
WithSize(found, converted) ==
    [found EXCEPT !.error = converted.error, !.size = converted.size]

\* the body of the loop of parse_border_value for one part: it is a size, a style
\* or a colour, or is passed over
ClassifyPart(found, part) ==
    IF found.error # "none" THEN found
    ELSE IF border_width_pattern(part)
            \/ (part.t = "word" /\ part.w \in DOMAIN BORDER_KEYWORDS)
    THEN WithSize(found, SizeOrDefault(<<part>>))
    ELSE IF part.t = "word" /\ part.w \in DOMAIN BORDER_STYLES
    THEN [found EXCEPT !.style = parse_border_style(<<part>>)]
    ELSE IF is_color(part)
    THEN IF parse_color_raises(<<part>>)
         THEN [found EXCEPT !.error = "ValueError"]
         ELSE [found EXCEPT !.color = parse_color(<<part>>)]
    ELSE found

\* the loop of parse_border_value over the parts, from size = None and the default
\* style and colour
RECURSIVE ClassifyParts(_)
ClassifyParts(parts) ==
    IF parts = << >>
    THEN [error |-> "none", size |-> NoSize,
          style |-> DEFAULT_BORDER_STYLE, color |-> DEFAULT_BORDER_COLOR]
    ELSE ClassifyPart(ClassifyParts(SubSeq(parts, 1, Len(parts) - 1)), parts[Len(parts)])

\* a variant that leaves a border without a size at the default size
SizeOrDefaultSize(found) ==
    IF found.error = "none" /\ found.size = NoSize
    THEN [found EXCEPT !.size = DEFAULT_BORDER_SIZE]
    ELSE found

\* if len(parts) >= 1 and size is None: size = 1.0
SizeOrOnePt(found) ==
    IF found.error = "none" /\ found.size = NoSize THEN [found EXCEPT !.size = OnePt]
    ELSE found

\* a parser that reads the parts by position: size, then style, then colour
PositionalBorderValue(value) ==
    IF value = << >> \/ value = << Word("none") >>
    THEN [error |-> "none", size |-> DEFAULT_BORDER_SIZE,
          style |-> DEFAULT_BORDER_STYLE, color |-> DEFAULT_BORDER_COLOR]
    ELSE SizeOrOnePt(ClassifyParts(
            (IF Len(value) >= 1 /\ (border_width_pattern(value[1])
                                     \/ value[1].w \in DOMAIN BORDER_KEYWORDS)
             THEN <<value[1]>> ELSE << >>)
            \o (IF Len(value) >= 2 /\ value[2].w \in DOMAIN BORDER_STYLES
                THEN <<value[2]>> ELSE << >>)
            \o (IF Len(value) >= 3 /\ is_color(value[3])
                THEN <<value[3]>> ELSE << >>)))

\* parse_border_value: (size, style, color) of a value whose parts come in any
\* order; 'none' or nothing is the default border; a value without a size gets 1pt
parse_border_value(value) ==
    IF value = << >> \/ value = << Word("none") >>
    THEN [error |-> "none", size |-> DEFAULT_BORDER_SIZE,
          style |-> DEFAULT_BORDER_STYLE, color |-> DEFAULT_BORDER_COLOR]
    ELSE SizeOrOnePt(ClassifyParts(value))

\* borders[side][field] = x for every side of the set
SetSides(borders, sides, field, x) ==
    [side \in DOMAIN borders |->
        IF side \in sides THEN [borders[side] EXCEPT ![field] = x] ELSE borders[side]]

\* borders[side].update({size, style, color}) for every side of the set
UpdateSides(borders, sides, r) ==
    [side \in DOMAIN borders |->
        IF side \in sides
        THEN [size |-> r.size, style |-> r.style, color |-> r.color]
        ELSE borders[side]]

\* borders[side]["size"] = size for the sides of the set; an exception raised by the
\* converter comes first, then the KeyError of a name that is no side
StoreSize(b, sides, converted) ==
    IF converted.error # "none" THEN [b EXCEPT !.error = converted.error]
    ELSE IF ~(sides \subseteq SideSet) THEN [b EXCEPT !.error = "KeyError"]
    ELSE [b EXCEPT !.borders = SetSides(@, sides, "size", converted.size)]

\* borders[side]["color"] = parse_color(css_value, return_hex=True)
StoreColor(b, sides, css_value) ==
    IF parse_color_raises(css_value) THEN [b EXCEPT !.error = "ValueError"]
    ELSE IF ~(sides \subseteq SideSet) THEN [b EXCEPT !.error = "KeyError"]
    ELSE [b EXCEPT !.borders = SetSides(@, sides, "color", parse_color(css_value))]

\* borders[side]["style"] = parse_border_style(css_value.lower())
StoreStyle(b, sides, css_value) ==
    IF ~(sides \subseteq SideSet) THEN [b EXCEPT !.error = "KeyError"]
    ELSE [b EXCEPT !.borders = SetSides(@, sides, "style", parse_border_style(css_value))]

\* size, style, color = parse_border_value(css_value); borders[side].update(...)
StoreBorder(b, sides, parsed) ==
    IF parsed.error # "none" THEN [b EXCEPT !.error = parsed.error]
    ELSE IF ~(sides \subseteq SideSet) THEN [b EXCEPT !.error = "KeyError"]
    ELSE [b EXCEPT !.borders = UpdateSides(@, sides, parsed)]

\* for side, val in zip(sides, values): borders[side]["size"] = converter(val) or default
RECURSIVE SetSizes(_, _, _)
SetSizes(b, sides, values) ==
    IF sides = << >> \/ values = << >> \/ b.error # "none" THEN b
    ELSE SetSizes(StoreSize(b, {sides[1]}, SizeOrDefault(<<values[1]>>)),
                  Tail(sides), Tail(values))

\* Case 2 ('border-width', ...) addresses every side, Case 3 ('border-top', ...) the
\* side named in the property
SidesOf(css_prop) == IF css_prop.side = "all" THEN SideSet ELSE {css_prop.side}

\* the body of the loop of set_cell_borders for one declaration of the styles
ApplyBorderDeclaration(b, css_prop, css_value) ==
    IF b.error # "none" THEN b
    ELSE IF css_prop = Prop("all", "all")
    THEN \* Case 1: the 'border' shorthand, by its number of words
         IF Len(css_value) \in {1, 3}
         THEN StoreBorder(b, SideSet, parse_border_value(css_value))
         ELSE IF Len(css_value) = 2
         THEN SetSizes(b, <<"top", "bottom", "left", "right">>,
                       <<css_value[1], css_value[1], css_value[2], css_value[2]>>)
         ELSE IF Len(css_value) = 4
         THEN SetSizes(b, border_sides, css_value)
         ELSE b
    ELSE CASE css_prop.sub = "width" ->
                StoreSize(b, SidesOf(css_prop), SizeOrDefault(css_value))
           [] css_prop.sub = "color" -> StoreColor(b, SidesOf(css_prop), css_value)
           [] css_prop.sub = "style" -> StoreStyle(b, SidesOf(css_prop), css_value)
           [] OTHER -> StoreBorder(b, SidesOf(css_prop), parse_border_value(css_value))

\* the loop over styles.items(), in the order of the style attribute
RECURSIVE ApplyBorderDeclarations(_)
ApplyBorderDeclarations(styles) ==
    IF styles = << >> THEN [borders |-> default_borders, error |-> "none"]
    ELSE LET n == Len(styles)
         IN  ApplyBorderDeclaration(ApplyBorderDeclarations(SubSeq(styles, 1, n - 1)),
                                    styles[n].prop, styles[n].value)

\* if border_info["size"] > 0: TypeError when a size is None
SizeError(b) ==
    IF b.error = "none" /\ \E side \in SideSet : b.borders[side].size = NoSize
    THEN "TypeError" ELSE b.error

\* set_cell_borders: the borders resolved from the styles, and the sides written
\* to the cell's w:tcBorders (those of size > 0), unless an exception ended it
set_cell_borders(styles) ==
    LET b == ApplyBorderDeclarations(styles)
    IN  [styles |-> styles,
         borders |-> b.borders,
         error |-> SizeError(b),
         written |-> IF SizeError(b) # "none" THEN {}
                     ELSE { side \in SideSet : b.borders[side].size > 0 }]

(***************************************************************************)
(* The cells of the model and the style attributes they are given.         *)
(***************************************************************************)
CellIds == {"c1", "c2"}
Unstyled == [styles |-> << >>, borders |-> default_borders, error |-> "unstyled",
             written |-> {}]

\* border widths, styles and colours as an author writes them
Widths == { <<Length(2, "px")>>, <<Length(1, "pt")>>, <<Word("thin")>>,
            <<Word("0")>>, <<Length(2, "mm")>> }
StyleWords == { <<Word("solid")>>, <<Word("dashed")>>, <<Word("none")>>,
                <<Word("groove")>> }
Colours == { <<Word("red")>>, <<Word("#00f")>>, <<Word("rgb(255,0,0)")>>,
             <<Word("rgb(255,"), Word("0,"), Word("0)")>> }

Decl(prop, value) == [prop |-> prop, value |-> value]

\* style="border: W S C"
Shorthand(W, S, C) == << Decl(Prop("all", "all"), W \o S \o C) >>

\* style="border-width: W; border-style: S; border-color: C"
Longhand(W, S, C) ==
    << Decl(Prop("all", "width"), W), Decl(Prop("all", "style"), S),
       Decl(Prop("all", "color"), C) >>

BorderStyleAttrs ==
    { Shorthand(W, S, C) : W \in Widths, S \in StyleWords, C \in Colours }
        \cup { Longhand(W, S, C) : W \in Widths, S \in StyleWords, C \in Colours }

\* style attributes with a value that is no border value, or a property that is
\* no border side: border-width: wide / border-top-width: 2mm /
\* border: 1px 2px 3px 4px 5px / border-radius: 2px
MalformedStyleAttrs ==
    { << Decl(Prop("all", "width"), <<Word("wide")>>) >>,
      << Decl(Prop("top", "width"), <<Length(2, "mm")>>) >>,
      << Decl(Prop("all", "all"), <<Length(1, "px"), Length(2, "px"), Length(3, "px"),
                                    Length(4, "px"), Length(5, "px")>>) >>,
      << Decl(Prop("radius", "all"), <<Length(2, "px")>>) >> }

\* no cell styled yet
BorderInit == cells = [c \in CellIds |-> Unstyled]

\* add_styles_to_table_cell -> set_cell_borders(cell, styles), once per cell
SetCellBorders ==
    \E c \in CellIds, styles \in BorderStyleAttrs \cup MalformedStyleAttrs :
        /\ cells[c] = Unstyled
        /\ cells' = [cells EXCEPT ![c] = set_cell_borders(styles)]
        /\ UNCHANGED exceptBorder

BorderNext == SetCellBorders

\* C10 (as claimed): for every width W, style S and colour C, a cell styled
\* 'border: W S C' gets on all four sides the same size, style and colour as a cell
\* styled 'border-width: W; border-style: S; border-color: C'.
C10_ShorthandEqualsLonghand ==
    \A W \in Widths, S \in StyleWords, C \in Colours :
        \A c, d \in CellIds :
            ( /\ cells[c].styles = Shorthand(W, S, C)
              /\ cells[d].styles = Longhand(W, S, C) )
            => /\ cells[c].error = cells[d].error
               /\ cells[c].borders = cells[d].borders

\* C14 (as claimed): no declaration with an unknown, unsupported or malformed value
\* makes the conversion raise: the declaration is dropped and the conversion goes on.
C14_MalformedNeverRaises ==
    \A c \in CellIds : cells[c].error \in {"unstyled", "none"}

(***************************************************************************)
(* The value parsers called on their own: parse_border_value (h4d.py),     *)
(* unit_converter and parse_color (utils.py).  calls keeps, per slot, one  *)
(* call: the function, its argument, and what it returned or raised.       *)
(***************************************************************************)
CallSlots == {"first", "second"}
NoCall == [fn |-> "none"]

\* no call made yet
ValueInit == calls = [slot \in CallSlots |-> NoCall]

\* the orders of three parts
Perms3 == { p \in [1..3 -> 1..3] : \A i, j \in 1..3 : i # j => p[i] # p[j] }

Permuted(value, p) == [i \in 1..3 |-> value[p[i]]]

\* the border values of one size (a length or thin), one style and one colour word,
\* in any order
BorderValues ==
    { Permuted(W \o S \o C, p) :
        W \in { <<Length(2, "px")>>, <<Word("thin")>>, <<Length(2, "mm")>> },
        S \in StyleWords, C \in { c \in Colours : Len(c) = 1 },
        p \in Perms3 }

\* size, style, color = parse_border_value(value)
ParseBorderValue ==
    \E slot \in CallSlots, value \in BorderValues :
        /\ calls[slot] = NoCall
        /\ calls' = [calls EXCEPT ![slot] = [fn |-> "parse_border_value",
                                             arg |-> value,
                                             result |-> parse_border_value(value)]]
        /\ UNCHANGED exceptValue

BorderValueNext == ParseBorderValue

\* C11: parse_border_value returns the same (size, style, colour) for every order of
\* the parts of a value made of one size, one style and one colour.
C11_AnyOrder ==
    \A a, b \in CallSlots :
        ( /\ calls[a].fn = "parse_border_value"
          /\ calls[b].fn = "parse_border_value"
          /\ \E p \in Perms3 : calls[b].arg = Permuted(calls[a].arg, p) )
        => calls[a].result = calls[b].result

\* C11 witness: '2px dashed red' and 'red 2px dashed' both parsed, both giving
\* 1.5pt, dashed, red
C11_Witness ==
    /\ calls["first"].fn = "parse_border_value"
    /\ calls["second"].fn = "parse_border_value"
    /\ calls["first"].arg = <<Length(2, "px"), Word("dashed"), Word("red")>>
    /\ calls["second"].arg = <<Word("red"), Length(2, "px"), Word("dashed")>>
    /\ calls["first"].result =
          [error |-> "none", size |-> 1500, style |-> "dashed", color |-> <<255, 0, 0>>]
    /\ calls["second"].result = calls["first"].result

(***************************************************************************)
(* Cells styled with any border declarations, one after the other.         *)
(***************************************************************************)
MaxDeclarations == 2    \* border declarations of a style attribute

\* border, border-width, border-style, border-top, border-top-width
SideProps ==
    { Prop("all", "all"), Prop("all", "width"), Prop("all", "style"),
      Prop("top", "all"), Prop("top", "width") }

SideValues ==
    { << >>, <<Length(2, "px")>>, <<Word("0")>>, <<Length(2, "mm")>>,
      <<Word("solid")>>,
      <<Length(2, "mm"), Word("solid"), Word("red")>> }

\* the style attributes: declarations of different properties, in any order
SideStyleAttrs ==
    { styles \in UNION { [1..n -> { Decl(prop, value) : prop \in SideProps,
                                                        value \in SideValues }]
                            : n \in 0..MaxDeclarations } :
        \A i, j \in DOMAIN styles : i # j => styles[i].prop # styles[j].prop }

\* add_styles_to_table_cell -> set_cell_borders(cell, styles) for the cell c1
SetSideBorders ==
    \E styles \in SideStyleAttrs :
        /\ cells["c1"] = Unstyled
        /\ cells' = [cells EXCEPT !["c1"] = set_cell_borders(styles)]
        /\ UNCHANGED exceptBorder

BorderSidesNext == SetSideBorders

MaxBorderParts == 3     \* words of a border value

\* the words of a border value: sizes, styles, colours, and words that are none
BorderParts ==
    { Length(2, "px"), Word("thin"), Word("0"), Length(2, "mm"),
      Word("solid"), Word("dashed"), Word("none"), Word("groove"),
      Word("red"), Word("#00f") }

AnyBorderValues == UNION { [1..n -> BorderParts] : n \in 0..MaxBorderParts }

\* size, style, color = parse_border_value(value)
ParseAnyBorderValue ==
    \E value \in AnyBorderValues :
        /\ calls["first"] = NoCall
        /\ calls' = [calls EXCEPT !["first"] = [fn |-> "parse_border_value",
                                                arg |-> value,
                                                result |-> parse_border_value(value)]]
        /\ UNCHANGED exceptValue

BorderPartsNext == ParseAnyBorderValue

\* what an author gives with a word: a size (a length or a width keyword), a style,
\* a colour
GivesSize(part) == part.t = "len" \/ part.w \in {"thin", "medium", "thick", "0"}
GivesStyle(part) ==
    part.w \in {"none", "hidden", "initial", "solid", "dotted", "dashed", "double",
                "inset", "outset"}
GivesColor(part) == part.w \in {"red", "blue", "#00f"}

PxToPt == 75000             \* value * 0.75
PtToPt == 100000            \* value * 1.0
InToPt == 7200000           \* value * 72.0
PcToPt == 1200000           \* value * 12.0
CmToPt == 2834650           \* value * 28.3465
MmToPt == 283465            \* value * 2.83465
EmToPt == 1200000           \* value * 12.0
RemToPt == 1200000          \* value * 12.0
PercentToPt == 100000       \* value
MaxIndentPt == 39600000     \* constants.MAX_INDENT * 72.0

\* the numbers and the unit words of the values converted
UnitNumbers == {0, 1, 2, 10, 12, 16, 100, 250}
UnitWords == {"px", "pt", "in", "pc", "cm", "mm", "em", "rem", "%", "PX", "vh", "ex", ""}
UnitValues == [num : UnitNumbers, unit : UnitWords]

\* str.lower(), on the unit words
Lower(unit) == IF unit = "PX" THEN "px" ELSE unit

\* conversion_to_pt: the value in points for each unit of the table
conversion_to_pt(value) ==
    [unit \in {"px", "pt", "in", "pc", "cm", "mm", "em", "rem", "%"} |->
        CASE unit = "px" -> value * PxToPt
          [] unit = "pt" -> value * PtToPt
          [] unit = "in" -> value * InToPt
          [] unit = "pc" -> value * PcToPt
          [] unit = "cm" -> value * CmToPt
          [] unit = "mm" -> value * MmToPt
          [] unit = "em" -> value * EmToPt
          [] unit = "rem" -> value * RemToPt
          [] OTHER -> value * PercentToPt]

\* docx.shared.Pt: Length(int(points * 12700)), in EMU
Pt(value_in_pt) == (value_in_pt \div 1000) * 127 + ((value_in_pt % 1000) * 127) \div 1000

\* value_in_pt = min(value_in_pt, constants.MAX_INDENT * 72.0); Pt(value_in_pt)
ClampedPt(value_in_pt) == [kind |-> "Pt", emu |-> Pt(Min(value_in_pt, MaxIndentPt))]

\* a table with the centimetre of border_unit_converter, 28.35 pt
ConverterWithBorderCm(unit_value) ==
    IF Lower(unit_value.unit) = "cm"
    THEN ClampedPt(unit_value.num * CmFactor * 100)
    ELSE IF Lower(unit_value.unit) \in DOMAIN conversion_to_pt(unit_value.num)
    THEN ClampedPt(conversion_to_pt(unit_value.num)[Lower(unit_value.unit)])
    ELSE [kind |-> "None", emu |-> 0]

\* unit_converter(unit_value, target_unit='pt'): the Length of the value, clamped to
\* MAX_INDENT; None for a unit that is not in the table
unit_converter(unit_value) ==
    IF Lower(unit_value.unit) \in DOMAIN conversion_to_pt(unit_value.num)
    THEN ClampedPt(conversion_to_pt(unit_value.num)[Lower(unit_value.unit)])
    ELSE [kind |-> "None", emu |-> 0]

\* utils.unit_converter(value)
UnitConverter ==
    \E slot \in CallSlots, unit_value \in UnitValues :
        /\ calls[slot] = NoCall
        /\ calls' = [calls EXCEPT ![slot] = [fn |-> "unit_converter",
                                             arg |-> unit_value,
                                             result |-> unit_converter(unit_value)]]
        /\ UNCHANGED exceptValue

UnitNext == UnitConverter

\* the table of the claim: points per unit, in 1/100000 pt
ClaimedFactor ==
    [unit \in {"px", "pt", "in", "pc", "cm", "mm", "em", "rem", "%"} |->
        CASE unit = "px" -> 75000
          [] unit = "pt" -> 100000
          [] unit = "in" -> 7200000
          [] unit = "pc" -> 1200000
          [] unit = "cm" -> 2834650
          [] unit = "mm" -> 283465
          [] unit \in {"em", "rem"} -> 1200000
          [] OTHER -> 100000]

\* C12: unit_converter(v), target 'pt', returns the Length of number x factor points
\* (px 0.75, pt 1, in 72, pc 12, cm 28.3465, mm 2.83465, em 12, rem 12, % the number
\* itself), never more than MAX_INDENT x 72 = 396 points; None for a unit that is
\* not in the table; 0 for '0px'.
C12_UnitTable ==
    \A slot \in CallSlots :
        calls[slot].fn = "unit_converter" =>
            IF Lower(calls[slot].arg.unit) \in DOMAIN ClaimedFactor
            THEN /\ calls[slot].result.kind = "Pt"
                 /\ calls[slot].result.emu =
                        Pt(Min(calls[slot].arg.num * ClaimedFactor[Lower(calls[slot].arg.unit)],
                               39600000))
                 /\ calls[slot].result.emu <= 396 * 12700
                 /\ calls[slot].arg.num = 0 => calls[slot].result.emu = 0
            ELSE calls[slot].result.kind = "None"

\* C12 witness: '1cm' gives 28.3465 pt (360000 EMU), '100in' is clamped to 396 pt
C12_Witness ==
    /\ calls["first"].fn = "unit_converter"
    /\ calls["first"].arg = [num |-> 1, unit |-> "cm"]
    /\ calls["first"].result = [kind |-> "Pt", emu |-> 360000]
    /\ calls["second"].fn = "unit_converter"
    /\ calls["second"].arg = [num |-> 100, unit |-> "in"]
    /\ calls["second"].result = [kind |-> "Pt", emu |-> 396 * 12700]

(***************************************************************************)
(* utils.parse_color called on its own.                                    *)
(***************************************************************************)
\* the colour tokens parsed: colours in each notation, a keyword, an unknown name,
\* and rgb notations without their three numbers
ColorValues ==
    RgbValues \cup { <<Word(w)>> : w \in {"red", "blue", "#00f", "currentcolor",
                                          "notacolor", "rgb()", "rgb(255,"} }

\* utils.parse_color(color, return_hex): the colour as a triple or as a hex string,
\* or the exception raised
ParseColor ==
    \E slot \in CallSlots, color \in ColorValues, return_hex \in BOOLEAN :
        /\ calls[slot] = NoCall
        /\ calls' = [calls EXCEPT ![slot] =
                        [fn |-> "parse_color",
                         arg |-> color,
                         return_hex |-> return_hex,
                         result |->
                            IF parse_color_raises(color)
                            THEN [error |-> "ValueError", form |-> "none",
                                  color |-> <<0, 0, 0>>]
                            ELSE [error |-> "none",
                                  form |-> IF return_hex THEN "hex" ELSE "rgb",
                                  color |-> parse_color(color)]]]
        /\ UNCHANGED exceptValue

ColorNext == ParseColor

\* C13 (as claimed): parse_color returns a colour for every token and never raises;
\* a token that is no colour gives black.
C13_NeverRaises ==
    \A slot \in CallSlots :
        calls[slot].fn = "parse_color" =>
            /\ calls[slot].result.error = "none"
            /\ calls[slot].arg \notin
                    (RgbValues \cup { <<Word(w)>> : w \in {"red", "blue", "#00f"} })
                => calls[slot].result.color = <<0, 0, 0>>

(***************************************************************************)
(* The entry points of HtmlToDocx: add_html_to_document, add_html_to_cell  *)
(* and save.  An argument is a Python object: its type, and for a document *)
(* or a cell which one it is.                                              *)
(***************************************************************************)
MaxConversions == 2     \* conversions run by one transformer

HtmlArgs == {"str", "bytes", "NoneType", "Document"}
TargetIds == {"doc", "cell"}
TargetArgs ==
    { [type |-> "Document", id |-> "doc"], [type |-> "_Cell", id |-> "cell"],
      [type |-> "str", id |-> "none"], [type |-> "NoneType", id |-> "none"] }
Destinations == {"str", "BytesIO", "PosixPath", "NoneType"}

NoApiCall == [op |-> "none", error |-> "none"]

\* HtmlToDocx(): no conversion run, nothing saved
ApiInit ==
    /\ api_call = NoApiCall
    /\ self_doc = "none"
    /\ n_resets = 0
    /\ documents = [id \in TargetIds |-> 0]
    /\ saved = {}

\* the entry point raises: nothing but the exception leaves the call
Raise(op, args, error) ==
    /\ api_call' = [op |-> op, args |-> args, error |-> error]
    /\ UNCHANGED <<self_doc, n_resets, documents, saved>>

\* self.set_initial_attrs(target); self.run_process(html)
Convert(op, args, target) ==
    /\ n_resets < MaxConversions
    /\ api_call' = [op |-> op, args |-> args, error |-> "none"]
    /\ self_doc' = target.id
    /\ n_resets' = n_resets + 1
    /\ documents' = [documents EXCEPT ![target.id] = @ + 1]
    /\ UNCHANGED saved

\* an add_html_to_document that resets the transformer before it looks at its
\* arguments
AddHtmlToDocumentResetFirst ==
    \E html \in HtmlArgs, document \in TargetArgs :
        /\ n_resets < MaxConversions
        /\ IF html # "str" \/ document.type \notin {"Document", "_Cell"}
           THEN /\ api_call' = [op |-> "add_html_to_document",
                                args |-> <<html, document.type>>, error |-> "ValueError"]
                /\ self_doc' = document.id
                /\ n_resets' = n_resets + 1
                /\ UNCHANGED <<documents, saved>>
           ELSE Convert("add_html_to_document", <<html, document.type>>, document)
        /\ UNCHANGED exceptApi

\* add_html_to_document(html, document)
AddHtmlToDocument ==
    \E html \in HtmlArgs, document \in TargetArgs :
        /\ IF html # "str"
           THEN Raise("add_html_to_document", <<html, document.type>>, "ValueError")
           ELSE IF document.type \notin {"Document", "_Cell"}
           THEN Raise("add_html_to_document", <<html, document.type>>, "ValueError")
           ELSE Convert("add_html_to_document", <<html, document.type>>, document)
        /\ UNCHANGED exceptApi

\* add_html_to_cell(html, cell)
AddHtmlToCell ==
    \E html \in HtmlArgs, cell \in TargetArgs :
        /\ IF cell.type # "_Cell"
           THEN Raise("add_html_to_cell", <<html, cell.type>>, "ValueError")
           ELSE IF html # "str"
           THEN \* the type of html is not looked at: run_process hands it to the HTML
                \* parser, which takes it or raises, after the transformer was reset
                \/ Convert("add_html_to_cell", <<html, cell.type>>, cell)
                \/ /\ n_resets < MaxConversions
                   /\ api_call' = [op |-> "add_html_to_cell",
                                   args |-> <<html, cell.type>>, error |-> "TypeError"]
                   /\ self_doc' = cell.id
                   /\ n_resets' = n_resets + 1
                   /\ UNCHANGED <<documents, saved>>
           ELSE Convert("add_html_to_cell", <<html, cell.type>>, cell)
        /\ UNCHANGED exceptApi

\* save(destination)
Save ==
    \E destination \in Destinations :
        /\ IF destination \in {"str", "BytesIO"}
           THEN IF self_doc = "none"
                THEN Raise("save", <<destination>>, "AttributeError")
                ELSE /\ api_call' = [op |-> "save", args |-> <<destination>>,
                                     error |-> "none"]
                     /\ saved' = saved \cup {destination}
                     /\ UNCHANGED <<self_doc, n_resets, documents>>
           ELSE Raise("save", <<destination>>, "TypeError")
        /\ UNCHANGED exceptApi

ApiNext == AddHtmlToDocument \/ AddHtmlToCell \/ Save

\* the call just made has an argument of a wrong type, as the claim lists them
WrongArgument(call) ==
    \/ call.op = "add_html_to_document"
         /\ (call.args[1] # "str" \/ call.args[2] \notin {"Document", "_Cell"})
    \/ call.op = "add_html_to_cell" /\ call.args[2] # "_Cell"
    \/ call.op = "save" /\ call.args[1] \notin {"str", "BytesIO"}

\* C15: add_html_to_document raises ValueError for an html that is no str or a target
\* that is neither a Document nor a cell, add_html_to_cell for a target that is no
\* cell, save raises TypeError for a destination that is neither a str nor a BytesIO;
\* the call leaves the transformer and the documents as they were.
C15_WrongArgumentRaisesFirst ==
    [][ (api_call' # api_call /\ WrongArgument(api_call')) =>
            /\ api_call'.error = IF api_call'.op = "save" THEN "TypeError" ELSE "ValueError"
            /\ UNCHANGED <<self_doc, n_resets, documents, saved>> ]_vars

\* C15 witness: after a conversion into the document, add_html_to_document with a
\* str as target has raised ValueError
C15_Witness ==
    /\ api_call = [op |-> "add_html_to_document", args |-> <<"str", "str">>,
                   error |-> "ValueError"]
    /\ self_doc = "doc"
    /\ documents["doc"] = 1

(***************************************************************************)
(* CSSParser, selective loading: mark_element_used registers the tags,     *)
(* classes and ids of the document, parse_css(selective=True) keeps the    *)
(* rules _is_selector_relevant accepts.                                    *)
(***************************************************************************)
\* names that a document and a sheet may use as a tag, as a class or as an id
SharedNames == {"p", "note"}

SelectiveSelectors == { Sel(kind, n) : kind \in {"tag", "class", "id"}, n \in SharedNames }

SelectiveBlocks == { Block(sel, Val("red", "none")) : sel \in SelectiveSelectors }

\* the elements marked: a tag, its classes and its id
UsedAttrs == [class : SUBSET SharedNames, id : SharedNames \cup {NoId}]

\* CSSParser.__init__: nothing registered
UsedInit ==
    /\ used_tags = {}
    /\ used_classes = {}
    /\ used_ids = {}

\* _is_selector_relevant, for a selector of one name: the #id matches, the .class
\* matches, the tag name left when what follows # . : is cut off, and then every
\* part of the selector split at # . > + ~ [ , and blanks, looked up in all three
\* sets
_is_selector_relevant(selector) ==
    \/ selector.kind = "id" /\ selector.name \in used_ids
    \/ selector.kind = "class" /\ selector.name \in used_classes
    \/ selector.kind = "tag" /\ selector.name \in used_tags
    \/ selector.name \in used_tags
    \/ selector.name \in used_classes
    \/ selector.name \in used_ids

\* parser.mark_element_used(tag, attrs)
MarkElementUsed ==
    \E tag \in SharedNames, attrs \in UsedAttrs :
        /\ used_tags' = used_tags \cup {tag}
        /\ used_classes' = used_classes \cup attrs.class
        /\ used_ids' = used_ids \cup (IF attrs.id = NoId THEN {} ELSE {attrs.id})
        /\ UNCHANGED exceptUsed

\* parser.parse_css(content, selective=True), content of one rule block: the rule
\* is stored when its selector is relevant
ParseCssSelective ==
    \E block \in SelectiveBlocks :
        /\ Len(all_rules) < MaxRules
        /\ IF _is_selector_relevant(block.selectors[1])
           THEN /\ tag_rules' = parse_css(Parser, <<block>>).tag_rules
                /\ class_rules' = parse_css(Parser, <<block>>).class_rules
                /\ id_rules' = parse_css(Parser, <<block>>).id_rules
                /\ all_rules' = parse_css(Parser, <<block>>).all_rules
           ELSE UNCHANGED <<tag_rules, class_rules, id_rules, all_rules>>
        /\ UNCHANGED <<q, exceptCss>>

SelectiveNext == MarkElementUsed \/ ParseCssSelective

\* C16 (as claimed): with selective=True a rule is stored only if its selector names
\* a tag registered as a tag, a class registered as a class or an id registered as
\* an id; every other rule is in none of tag_rules, class_rules, id_rules.
C16_OnlyUsedSelectorsStored ==
    /\ DOMAIN tag_rules \subseteq used_tags
    /\ DOMAIN class_rules \subseteq used_classes
    /\ DOMAIN id_rules \subseteq used_ids

(***************************************************************************)
(* HtmlToDocx as an HTMLParser: handle_starttag, handle_endtag and         *)
(* handle_data.  The converter is one record: tags is the set of keys of   *)
(* self.tags other than 'span' and 'list', span is self.tags['span'],      *)
(* paragraphs is self.doc.paragraphs, each paragraph the sequence of its   *)
(* runs, and paragraph is the index of self.paragraph in it, 0 for None.   *)
(***************************************************************************)
MaxSpanDepth == 2   \* spans open at one time
MaxRuns == 2        \* runs in the document
MaxParagraphs == 3  \* paragraphs in the document
MaxTextLen == 3     \* characters in one piece of text
MaxTextRuns == 1    \* runs in a document of texts

\* set_initial_attrs, given the options 'fix-html' and 'images'; data is the text
\* the parser handed to handle_data last
NewConverter(bs, images) ==
    [tags |-> {}, span |-> << >>, paragraphs |-> << >>, paragraph |-> 0,
     skip |-> FALSE, skip_tag |-> "None", instances_to_skip |-> 0,
     bs |-> bs, include_images |-> images, error |-> "none", data |-> << >>,
     div_style |-> EmptyDict]

\* the converter with constants.DEFAULT_OPTIONS
HandlerInit ==
    /\ h = NewConverter(TRUE, TRUE)
    /\ h_ref = h

\* the converter with any setting of the two options
OptionsInit ==
    /\ h \in { NewConverter(bs, images) : bs \in BOOLEAN, images \in BOOLEAN }
    /\ h_ref = h

\* a run as paragraph.add_run(text) makes it: no colour, bold and font name unset
NewRun(text) == [text |-> text, color |-> << >>, bold |-> "None", name |-> "None"]

\* self.doc.add_paragraph(), made the current paragraph
AddParagraph(c) ==
    [c EXCEPT !.paragraphs = Append(@, << >>), !.paragraph = Len(c.paragraphs) + 1]

\* self.doc.add_paragraph(text): a paragraph of one run, self.paragraph untouched
AddTextParagraph(c, text) ==
    [c EXCEPT !.paragraphs = Append(@, << NewRun(text) >>)]

\* if not self.paragraph: self.paragraph = self.doc.add_paragraph()
EnsureParagraph(c) == IF c.paragraph = 0 THEN AddParagraph(c) ELSE c

\* self.paragraph.add_run(...)
AddRun(c, run) == [c EXCEPT !.paragraphs[c.paragraph] = Append(@, run)]

(***************************************************************************)
(* utils.remove_whitespace.  A text is a sequence of characters.           *)
(***************************************************************************)
Chars == {"a", " ", "\n"}

\* \s
IsSpace(ch) == ch \in {" ", "\n"}

\* the length of the longest prefix of blanks and new lines
LeadingSpaces(s) ==
    CHOOSE k \in 0..Len(s) :
        /\ \A i \in 1..k : IsSpace(s[i])
        /\ k = Len(s) \/ ~IsSpace(s[k + 1])

\* the length of the longest suffix of blanks and new lines
TrailingSpaces(s) ==
    CHOOSE k \in 0..Len(s) :
        /\ \A i \in (Len(s) - k + 1)..Len(s) : IsSpace(s[i])
        /\ k = Len(s) \/ ~IsSpace(s[Len(s) - k])

HasNewLine(s) == \E i \in 1..Len(s) : s[i] = "\n"

\* re.sub(r"^\s*\n+\s*", "", string)
StripLeadingNewLines(s) ==
    IF HasNewLine(SubSeq(s, 1, LeadingSpaces(s)))
    THEN SubSeq(s, LeadingSpaces(s) + 1, Len(s))
    ELSE s

\* re.sub(r"\s*\n+\s*$", "", string)
StripTrailingNewLines(s) ==
    IF HasNewLine(SubSeq(s, Len(s) - TrailingSpaces(s) + 1, Len(s)))
    THEN SubSeq(s, 1, Len(s) - TrailingSpaces(s))
    ELSE s

\* what a substitution puts for one stretch of white space
ReplaceStretch(stretch, only_new_lines) ==
    IF only_new_lines /\ ~HasNewLine(stretch) THEN stretch ELSE << " " >>

\* re.sub(r"\s*\n\s*", " ", string) when only_new_lines, re.sub(r"\s+", " ", string)
\* otherwise: every stretch of white space (that holds a new line) becomes one blank
RECURSIVE SquashSpaces(_, _)
SquashSpaces(s, only_new_lines) ==
    IF s = << >> THEN << >>
    ELSE IF ~IsSpace(s[1]) THEN << s[1] >> \o SquashSpaces(Tail(s), only_new_lines)
    ELSE ReplaceStretch(SubSeq(s, 1, LeadingSpaces(s)), only_new_lines)
            \o SquashSpaces(SubSeq(s, LeadingSpaces(s) + 1, Len(s)), only_new_lines)

\* utils.remove_whitespace(string, leading, trailing)
remove_whitespace(string, leading, trailing) ==
    SquashSpaces(
        SquashSpaces(
            IF trailing
            THEN StripTrailingNewLines(IF leading THEN StripLeadingNewLines(string)
                                       ELSE string)
            ELSE IF leading THEN StripLeadingNewLines(string) ELSE string,
            TRUE),
        FALSE)

(***************************************************************************)
(* apply_styles_to_run and the run handlers of constants.RUN_STYLES it     *)
(* calls.  A style is a dictionary from property to value, the value with  *)
(* the !important marker it was written with.                              *)
(***************************************************************************)
\* _apply_color_to_run: parse_color removes the marker and looks the name up
_apply_color_to_run(run, color) ==
    [run EXCEPT !.color = parse_color(<< Word(color.v) >>)]

\* _apply_font_weight_to_run: the value is compared as written, the marker included
_apply_font_weight_to_run(run, font_weight) ==
    CASE HasImportant(font_weight) -> run
      [] font_weight.v \in {"bold", "bolder", "700", "800", "900"} ->
            [run EXCEPT !.bold = "True"]
      [] font_weight.v \in {"normal", "lighter", "400", "300", "100"} ->
            [run EXCEPT !.bold = "False"]
      [] OTHER -> run

ApplyColor(run, style) ==
    IF "color" \in DOMAIN style THEN _apply_color_to_run(run, style["color"]) ELSE run

ApplyFontWeight(run, style) ==
    IF "font-weight" \in DOMAIN style
    THEN _apply_font_weight_to_run(run, style["font-weight"])
    ELSE run

\* apply_styles_to_run(run, style): the handler of every property of the style
apply_styles_to_run(run, style) == ApplyFontWeight(ApplyColor(run, style), style)

\* for span in self.tags['span']: if 'style' in span: apply_styles_to_run
RECURSIVE ApplySpans(_, _)
ApplySpans(run, spans) ==
    IF spans = << >> THEN run
    ELSE IF "style" \in DOMAIN spans[1]
         THEN ApplySpans(apply_styles_to_run(run, spans[1]["style"]), Tail(spans))
         ELSE ApplySpans(run, Tail(spans))

\* for tag in self.tags: constants.FONT_NAMES gives Courier to code and pre
ApplyFontNames(run, tags_) ==
    IF tags_ \cap {"code", "pre"} # {} THEN [run EXCEPT !.name = "Courier"] ELSE run

\* for tag in self.tags: constants.FONT_STYLES sets the bold of b, strong and th
ApplyFontStyles(run, tags_) ==
    IF tags_ \cap {"b", "strong", "th"} # {} THEN [run EXCEPT !.bold = "True"] ELSE run

\* the text of the run: white space removed unless 'pre' is a key of self.tags
DataText(c, data) ==
    IF "pre" \notin c.tags THEN remove_whitespace(data, TRUE, TRUE) ELSE data

\* the properties the styles of the open spans declare
SpanKeys(spans) ==
    UNION { DOMAIN spans[i]["style"] : i \in { j \in DOMAIN spans : "style" \in DOMAIN spans[j] } }

\* for span_style_name in span_style.keys(): del div_style[span_style_name];
\* self.tags['div']['style'] = dict_to_style_string(div_style)
DivStyleAfterSpans(div_style, spans) ==
    IF DOMAIN div_style \subseteq SpanKeys(spans) THEN EmptyDict
    ELSE [k \in DOMAIN div_style \ SpanKeys(spans) |-> div_style[k]]

\* add_styles_to_run(style) for the style of the div: the colour of the run
ApplyDivStyle(run, div_style) ==
    IF "color" \in DOMAIN div_style
    THEN [run EXCEPT !.color = parse_color(<< Word(div_style["color"].v) >>)]
    ELSE run

\* handle_data
handle_data(c, data) ==
    IF c.skip THEN c
    ELSE [AddRun(EnsureParagraph(c),
                 ApplyDivStyle(
                    ApplyFontNames(
                        ApplyFontStyles(ApplySpans(NewRun(DataText(c, data)), c.span),
                                        c.tags),
                        c.tags),
                    DivStyleAfterSpans(c.div_style, c.span)))
            EXCEPT !.div_style = DivStyleAfterSpans(c.div_style, c.span)]

(***************************************************************************)
(* handle_starttag, with handle_img.                                       *)
(***************************************************************************)
\* the run add_picture fills
Picture == NewRun(<< "<Graphic>" >>)

\* handle_img while images are enabled; image tells whether the source was fetched
AddImage(c, attrs, image) ==
    IF "src" \notin attrs THEN AddTextParagraph(c, << "<image: no_src>" >>)
    ELSE IF image THEN AddRun(EnsureParagraph(c), Picture)
    ELSE AddTextParagraph(AddRun(EnsureParagraph(c), NewRun(<< >>)), << "<image: src>" >>)

\* handle_img
handle_img(c, attrs, image) ==
    IF ~c.include_images THEN [c EXCEPT !.skip = TRUE, !.skip_tag = "img"]
    ELSE AddImage(c, attrs, image)

\* self.paragraph = self.doc.paragraphs[-1]
LastParagraph(c) ==
    IF c.paragraphs = << >> THEN [c EXCEPT !.error = "IndexError"]
    ELSE [c EXCEPT !.paragraph = Len(c.paragraphs)]

\* self.tags[tag] = current_attrs
OpenTag(c, tag) == [c EXCEPT !.tags = @ \cup {tag}]

\* handle_starttag(tag, attrs); attrs is the dictionary of a span and the set of
\* attribute names of any other tag
handle_starttag(c, tag, attrs, image) ==
    CASE c.skip -> c
      [] ~c.skip /\ tag = "span" -> [c EXCEPT !.span = Append(@, attrs)]
      [] ~c.skip /\ tag \in {"p", "pre"} ->
            IF ~in_li THEN AddParagraph(OpenTag(c, tag)) ELSE OpenTag(c, tag)
      [] ~c.skip /\ tag = "img" -> LastParagraph(handle_img(OpenTag(c, tag), attrs, image))
      [] OTHER -> OpenTag(c, tag)

(***************************************************************************)
(* handle_endtag.                                                          *)
(***************************************************************************)
\* if tag in self.tags: self.tags.pop(tag)
CloseTag(c, tag) ==
    [c EXCEPT !.tags = @ \ {tag},
              !.div_style = IF tag = "div" THEN EmptyDict ELSE @]

\* handle_endtag after the skip test: a span is popped, any other tag leaves self.tags
AfterSkipTest(c, tag) ==
    IF tag = "span" /\ c.span # << >>
    THEN [c EXCEPT !.span = SubSeq(@, 1, Len(@) - 1)]
    ELSE CloseTag(c, tag)

\* handle_endtag(tag)
handle_endtag(c, tag) ==
    CASE c.skip /\ tag # c.skip_tag -> c
      [] c.skip /\ tag = c.skip_tag /\ c.instances_to_skip > 0 ->
            [c EXCEPT !.instances_to_skip = @ - 1]
      [] c.skip /\ tag = c.skip_tag /\ c.instances_to_skip = 0 ->
            AfterSkipTest([c EXCEPT !.skip = FALSE, !.skip_tag = "None", !.paragraph = 0],
                          tag)
      [] OTHER -> AfterSkipTest(c, tag)

\* the runs of the document
RECURSIVE CountRuns(_)
CountRuns(paragraphs_) ==
    IF paragraphs_ = << >> THEN 0
    ELSE Len(paragraphs_[1]) + CountRuns(Tail(paragraphs_))

\* the documents the model follows
Bounded(c) ==
    /\ Len(c.paragraphs) <= MaxParagraphs
    /\ CountRuns(c.paragraphs) <= MaxRuns
    /\ Len(c.span) <= MaxSpanDepth

(***************************************************************************)
(* Nested spans with inline styles.                                        *)
(***************************************************************************)
\* the style attributes of the spans: one declaration, of a colour or of a weight
SpanStyles ==
    { [color |-> Val(c, m)] : c \in {"red", "blue"}, m \in {"none", "lower"} }
        \cup { "font-weight" :> v : v \in {Val("bold", "lower"), Val("normal", "none")} }

\* the attributes of a span: none, or a style
SpanAttrs == {EmptyDict} \cup { [style |-> st] : st \in SpanStyles }

\* <span ...>
StartSpan ==
    \E attrs \in SpanAttrs :
        /\ h.error = "none"
        /\ Bounded(handle_starttag(h, "span", attrs, FALSE))
        /\ h' = handle_starttag(h, "span", attrs, FALSE)
        /\ UNCHANGED <<h_ref, exceptHandler>>

\* </span>, of a span that is open
EndSpan ==
    /\ h.error = "none"
    /\ h.span # << >>
    /\ h' = handle_endtag(h, "span")
    /\ UNCHANGED <<h_ref, exceptHandler>>

\* a piece of text between the tags
SpanData ==
    /\ h.error = "none"
    /\ Bounded(handle_data(h, << "a" >>))
    /\ h' = [handle_data(h, << "a" >>) EXCEPT !.data = << "a" >>]
    /\ UNCHANGED <<h_ref, exceptHandler>>

SpanNext == StartSpan \/ EndSpan \/ SpanData

\* the run handle_data has just added
LastRun(c) == c.paragraphs[c.paragraph][Len(c.paragraphs[c.paragraph])]

\* a step that adds a run to the document
RunAdded == CountRuns(h'.paragraphs) = CountRuns(h.paragraphs) + 1

SpanProps == {"color", "font-weight"}

\* the open spans whose style sets the property, and those that set it !important
SpansSetting(spans, prop) ==
    { i \in DOMAIN spans :
        "style" \in DOMAIN spans[i] /\ prop \in DOMAIN spans[i]["style"] }

SpansSettingImportant(spans, prop) ==
    { i \in SpansSetting(spans, prop) : HasImportant(spans[i]["style"][prop]) }

\* what a run shows for a property, and what it shows when a declaration took effect
RunValue(run, prop) == IF prop = "color" THEN run.color ELSE run.bold

DeclaredValue(prop, value) ==
    IF prop = "color" THEN NamedColors[value.v]
    ELSE IF value.v = "bold" THEN "True" ELSE "False"

\* C17 (as claimed): when every open span that sets a property sets it !important,
\* the text emitted gets the value of the innermost of them (inside the inner span
\* the inner value, inside the outer span only the outer value).
C17_InnermostImportantWins ==
    [][RunAdded =>
        \A prop \in SpanProps :
            (/\ SpansSetting(h.span, prop) # {}
             /\ SpansSettingImportant(h.span, prop) = SpansSetting(h.span, prop))
                => RunValue(LastRun(h'), prop)
                     = DeclaredValue(prop,
                          h.span[SetMax(SpansSetting(h.span, prop))]["style"][prop])]_vars

\* C18 (as claimed): when an outer span sets a property !important and the innermost
\* span that sets it does so without !important, the text inside keeps the value
\* of the !important declaration.
C18_OuterImportantKept ==
    [][RunAdded =>
        \A prop \in SpanProps :
            (/\ SpansSettingImportant(h.span, prop) # {}
             /\ SetMax(SpansSetting(h.span, prop)) \notin SpansSettingImportant(h.span, prop))
                => RunValue(LastRun(h'), prop)
                     = DeclaredValue(prop,
                          h.span[SetMax(SpansSettingImportant(h.span, prop))]["style"][prop])]_vars

(***************************************************************************)
(* Text inside and outside <pre> and <code>.                               *)
(***************************************************************************)
\* the pieces of text the parser hands over: never empty
Texts == UNION { [1..n -> Chars] : n \in 1..MaxTextLen }

BlockTags == {"pre", "code"}

\* <pre> or <code>
StartBlock ==
    \E tag \in BlockTags :
        /\ h.error = "none"
        /\ tag \notin h.tags
        /\ Bounded(handle_starttag(h, tag, {}, FALSE))
        /\ h' = handle_starttag(h, tag, {}, FALSE)
        /\ UNCHANGED <<h_ref, exceptHandler>>

\* </pre> or </code>, of an element that is open
EndBlock ==
    \E tag \in BlockTags :
        /\ h.error = "none"
        /\ tag \in h.tags
        /\ h' = handle_endtag(h, tag)
        /\ UNCHANGED <<h_ref, exceptHandler>>

\* a piece of text
TextData ==
    \E data \in Texts :
        /\ h.error = "none"
        /\ Bounded(handle_data(h, data))
        /\ CountRuns(h.paragraphs) < MaxTextRuns
        /\ h' = [handle_data(h, data) EXCEPT !.data = data]
        /\ UNCHANGED <<h_ref, exceptHandler>>

TextNext == StartBlock \/ EndBlock \/ TextData

\* a text without the white space at its two ends
Stripped(s) ==
    SubSeq(s, LeadingSpaces(s) + 1,
           IF LeadingSpaces(s) = Len(s) THEN Len(s) ELSE Len(s) - TrailingSpaces(s))

\* the normal form the claim describes: every stretch of white space one blank and
\* none at the ends
Normalized(s) == Stripped(SquashSpaces(s, FALSE))

\* C19 (as claimed): the run of a piece of text holds the text verbatim when a <pre>
\* or a <code> is open, and otherwise the text with every stretch of white space
\* collapsed to one blank and the white space at its ends removed.
C19_TextNormalizedUnlessPreformatted ==
    [][RunAdded =>
        LastRun(h').text
            = IF h.tags \cap BlockTags # {} THEN h'.data ELSE Normalized(h'.data)]_vars

(***************************************************************************)
(* Paragraphs with <img> elements.  h is fed the document, h_ref the same  *)
(* document without its <img> elements.                                    *)
(***************************************************************************)
\* the attribute names of an <img>
ImgAttrs == { {}, {"src"} }

\* how an <img> reaches the parser: BeautifulSoup writes every <img> as <img/>,
\* which HTMLParser hands over as a start tag and an end tag; without 'fix-html' the
\* element comes as it was written, <img/> or <img>
ImgForms(c) == IF c.bs THEN {"startend"} ELSE {"startend", "start"}

\* the parser on one <img>: the end tag follows unless the start tag raised
FeedImg(c, attrs, image, form) ==
    IF form = "start" \/ handle_starttag(c, "img", attrs, image).error # "none"
    THEN handle_starttag(c, "img", attrs, image)
    ELSE handle_endtag(handle_starttag(c, "img", attrs, image), "img")

\* <p>
StartParagraph ==
    /\ h.error = "none"
    /\ "p" \notin h_ref.tags
    /\ Bounded(handle_starttag(h, "p", {}, FALSE))
    /\ Bounded(handle_starttag(h_ref, "p", {}, FALSE))
    /\ h' = handle_starttag(h, "p", {}, FALSE)
    /\ h_ref' = handle_starttag(h_ref, "p", {}, FALSE)
    /\ UNCHANGED exceptHandler

\* </p>
EndParagraph ==
    /\ h.error = "none"
    /\ "p" \in h_ref.tags
    /\ h' = handle_endtag(h, "p")
    /\ h_ref' = handle_endtag(h_ref, "p")
    /\ UNCHANGED exceptHandler

\* a piece of text
ParagraphData ==
    /\ h.error = "none"
    /\ Bounded(handle_data(h, << "a" >>))
    /\ Bounded(handle_data(h_ref, << "a" >>))
    /\ h' = [handle_data(h, << "a" >>) EXCEPT !.data = << "a" >>]
    /\ h_ref' = [handle_data(h_ref, << "a" >>) EXCEPT !.data = << "a" >>]
    /\ UNCHANGED exceptHandler

\* an <img>, which only h is fed
Img ==
    \E attrs \in ImgAttrs, image \in BOOLEAN, form \in ImgForms(h) :
        /\ h.error = "none"
        /\ Bounded(FeedImg(h, attrs, image, form))
        /\ h' = FeedImg(h, attrs, image, form)
        /\ UNCHANGED <<h_ref, exceptHandler>>

ImgNext == StartParagraph \/ EndParagraph \/ ParagraphData \/ Img

\* C20 (as claimed): with the images option disabled, once the parser is out of skip
\* mode the document is the one produced from the same HTML without its <img>
\* elements: the same paragraphs with the same runs.
C20_SkippedImgLeavesNoTrace ==
    (~h.include_images /\ h.error = "none" /\ ~h.skip)
        => h.paragraphs = h_ref.paragraphs

(***************************************************************************)
(* handle_img with images enabled: utils.fetch_image_data, add_picture and *)
(* the placeholder.  A src is its scheme, its host and the characters of   *)
(* its path: "http://host/d/f" is scheme "http", netloc "host" and path    *)
(* / d / f; a local path has no scheme and no netloc.  "d" and "f" stand   *)
(* for names, "#" for the character that starts a URL fragment.            *)
(***************************************************************************)
MaxPathLen == 3

PathChars == {"/", "\\", "d", "f", "#"}

Paths == UNION { [1..n -> PathChars] : n \in 0..MaxPathLen }

NoSrc == [scheme |-> "none", netloc |-> "", path |-> << >>]

\* data:image/png;base64,...
DataSrc == [scheme |-> "data", netloc |-> "", path |-> << >>]

\* C:\d\f, /d/f, d/f: no scheme, no host, a path that does not start with //
LocalSrcs ==
    { [scheme |-> "", netloc |-> "", path |-> pth] :
        pth \in { x \in Paths : x # << >> /\ ~(Len(x) > 1 /\ x[1] = "/" /\ x[2] = "/") } }

\* http://host/d/f, file://host/d/f, file:///d/f: the path empty or starting with /
SchemeSrcs ==
    { [scheme |-> sch, netloc |-> net, path |-> pth] :
        sch \in {"http", "file"}, net \in {"", "host"},
        pth \in { x \in Paths : x = << >> \/ x[1] = "/" } }

Srcs == LocalSrcs \cup SchemeSrcs \cup {DataSrc}

\* the platforms os.path is written for
Platforms == {"posix", "nt"}

\* the index of the first character of s that is in the set, Len(s) + 1 when none is
FirstOf(s, set) ==
    CHOOSE k \in 1..(Len(s) + 1) :
        /\ \A i \in 1..(k - 1) : s[i] \notin set
        /\ k = Len(s) + 1 \/ s[k] \in set

\* the index of the last character of s that is in the set, 0 when none is
LastOf(s, set) ==
    CHOOSE k \in 0..Len(s) :
        /\ \A i \in (k + 1)..Len(s) : s[i] \notin set
        /\ k = 0 \/ s[k] \in set

\* urlparse(url).path: the path up to the fragment
UrlPath(src) == SubSeq(src.path, 1, FirstOf(src.path, {"#"}) - 1)

\* os.path.basename: what follows the last separator of the platform
Basename(pth, platform) ==
    SubSeq(pth, LastOf(pth, IF platform = "nt" THEN {"/", "\\"} ELSE {"/"}) + 1, Len(pth))

\* utils.is_url
is_url(src) == src.scheme # "" /\ src.netloc # "" /\ UrlPath(src) # << >>

\* utils.get_filename_from_url
get_filename_from_url(src, platform) == Basename(UrlPath(src), platform)

\* the exception classes of the model, each with the classes it is an instance of
ExceptionBases ==
    [exc \in {"URLError", "HTTPError", "TimeoutError", "ConnectionResetError",
              "FileNotFoundError", "PermissionError", "IsADirectoryError",
              "binascii.Error", "UnrecognizedImageError"} |->
        CASE exc = "HTTPError" -> {"HTTPError", "URLError", "OSError"}
          [] exc = "binascii.Error" -> {"binascii.Error", "ValueError"}
          [] exc = "UnrecognizedImageError" -> {"UnrecognizedImageError"}
          [] OTHER -> {exc, "OSError"}]

\* try: ... except handler: the exception is caught
Caught(exc, handler) == handler \in ExceptionBases[exc]

\* what getting the data of a src can meet: "ok" or the exception raised by
\* base64.b64decode, by urlopen and response.read, or by open
FetchEvents(src) ==
    CASE src.scheme = "data" -> {"ok", "binascii.Error"}
      [] is_url(src) -> {"ok", "URLError", "HTTPError", "TimeoutError", "ConnectionResetError"}
      [] OTHER -> {"ok", "FileNotFoundError", "PermissionError", "IsADirectoryError"}

\* what run.add_picture can meet
PictureEvents == {"ok", "FileNotFoundError", "UnrecognizedImageError"}

\* utils.fetch_image_data with utils.fetch_image: the data, None, or the exception
\* that leaves the function
fetch_image_data(src, event) ==
    CASE event = "ok" -> [image |-> "data", error |-> "none"]
      [] event # "ok" /\ src.scheme = "data" -> [image |-> "None", error |-> event]
      [] event # "ok" /\ src.scheme # "data" /\ is_url(src) ->
            IF Caught(event, "URLError") THEN [image |-> "None", error |-> "none"]
            ELSE [image |-> "None", error |-> event]
      [] OTHER ->
            IF Caught(event, "FileNotFoundError") THEN [image |-> "None", error |-> "none"]
            ELSE [image |-> "None", error |-> event]

\* "<image: %s>": the text after "<image: "
PlaceholderName(src, platform) ==
    IF is_url(src) THEN [whole |-> TRUE, name |-> src.path]
    ELSE [whole |-> FALSE, name |-> get_filename_from_url(src, platform)]

Placeholder(src, platform) ==
    [error |-> "none", output |-> "placeholder", text |-> PlaceholderName(src, platform)]

Aborted(exc) ==
    [error |-> exc, output |-> "none", text |-> [whole |-> FALSE, name |-> << >>]]

Inserted ==
    [error |-> "none", output |-> "picture", text |-> [whole |-> FALSE, name |-> << >>]]

\* handle_img from the add_picture on, image fetched
AddPicture(src, platform, picture_event) ==
    CASE picture_event = "ok" -> Inserted
      [] picture_event # "ok" /\ Caught(picture_event, "FileNotFoundError") ->
            Placeholder(src, platform)
      [] OTHER -> Aborted(picture_event)

\* handle_img after fetch_image_data
AfterFetch(src, platform, fetched, picture_event) ==
    CASE fetched.error # "none" -> Aborted(fetched.error)
      [] fetched.error = "none" /\ fetched.image = "None" -> Placeholder(src, platform)
      [] OTHER -> AddPicture(src, platform, picture_event)

\* handle_img with images enabled: what it adds to the document, or the exception
\* that leaves it
InsertImage(src, platform, fetch_event, picture_event) ==
    IF src = NoSrc
    THEN [error |-> "none", output |-> "no_src", text |-> [whole |-> FALSE, name |-> << >>]]
    ELSE AfterFetch(src, platform, fetch_image_data(src, fetch_event), picture_event)

\* <img ...> with images enabled
HandleImg ==
    \E src \in Srcs \cup {NoSrc}, platform \in Platforms, picture_event \in PictureEvents :
        \E fetch_event \in FetchEvents(src) :
            /\ calls["first"] = NoCall
            /\ fetch_event # "ok" => picture_event = "ok"
            /\ calls' = [calls EXCEPT !["first"] =
                            [fn |-> "handle_img", src |-> src, platform |-> platform,
                             fetch_event |-> fetch_event, picture_event |-> picture_event,
                             result |-> InsertImage(src, platform, fetch_event,
                                                    picture_event)]]
            /\ UNCHANGED exceptValue

ImageNext == HandleImg

\* the calls of handle_img that wrote a placeholder for a src
ImagePlaceholders ==
    { slot \in CallSlots :
        /\ calls[slot].fn = "handle_img"
        /\ calls[slot].result.output = "placeholder" }

\* the last component of a path, whichever separator it is written with
LastComponent(pth) == SubSeq(pth, LastOf(pth, {"/", "\\"}) + 1, Len(pth))

IsPrefix(s, t) == Len(s) <= Len(t) /\ SubSeq(t, 1, Len(s)) = s

\* C21 (as claimed): a placeholder names the whole src only if the src is a URL, and
\* otherwise names nothing but the file: no separator is in the name, and the name
\* is taken from the last component of the src, never from a directory before it.
C21_PlaceholderNeverLeaksPath ==
    \A slot \in ImagePlaceholders :
        /\ calls[slot].result.text.whole => is_url(calls[slot].src)
        /\ ~calls[slot].result.text.whole =>
              /\ IsPrefix(calls[slot].result.text.name,
                          LastComponent(calls[slot].src.path))
              /\ \A i \in DOMAIN calls[slot].result.text.name :
                    calls[slot].result.text.name[i] \notin {"/", "\\"}

\* C22 (as claimed): whatever keeps the data of an image from being obtained or
\* used, handle_img raises nothing and writes a placeholder.
C22_ImageFailureNeverAborts ==
    \A slot \in CallSlots :
        (/\ calls[slot].fn = "handle_img"
         /\ calls[slot].src # NoSrc
         /\ (calls[slot].fetch_event # "ok" \/ calls[slot].picture_event # "ok"))
            => /\ calls[slot].result.error = "none"
               /\ calls[slot].result.output = "placeholder"

(***************************************************************************)
(* get_word_style_for_element and the test of the style in handle_starttag. *)
(* "None" is Python's None.                                                *)
(***************************************************************************)
MaxClasses == 2     \* class names in one class attribute

StyleClasses == {"a", "b"}

\* the styles of the document, and a name that is no style of it
DocumentStyles == {"Heading 2", "Heading 3"}
StyleNames == DocumentStyles \cup {"NonExistentStyle"}

\* the style maps: a style for some of the classes
StyleMaps == UNION { [cs -> StyleNames] : cs \in SUBSET StyleClasses }

\* the tag overrides: a style for the tag, or none
TagOverrides == {EmptyDict} \cup { [h1 |-> st] : st \in StyleNames }

\* the attributes of the element: no class attribute, or its value split at blanks
ElementAttrs ==
    {EmptyDict}
        \cup { [class |-> cs] : cs \in UNION { [1..n -> StyleClasses] : n \in 0..MaxClasses } }

\* for cls in classes: if cls in self.style_map: return self.style_map[cls]
RECURSIVE FirstMapped(_, _)
FirstMapped(classes, style_map) ==
    IF classes = << >> THEN "None"
    ELSE IF classes[1] \in DOMAIN style_map THEN style_map[classes[1]]
    ELSE FirstMapped(Tail(classes), style_map)

\* Priority 2 and 3: the tag override, or None
TagOverride(tag, tag_style_overrides) ==
    IF tag \in DOMAIN tag_style_overrides THEN tag_style_overrides[tag] ELSE "None"

\* a variant that looks at the tag override before the classes
TagOverrideFirst(tag, attrs, style_map, tag_style_overrides) ==
    IF tag \in DOMAIN tag_style_overrides THEN tag_style_overrides[tag]
    ELSE IF "class" \in DOMAIN attrs THEN FirstMapped(attrs["class"], style_map)
    ELSE "None"

\* get_word_style_for_element
get_word_style_for_element(tag, attrs, style_map, tag_style_overrides) ==
    IF "class" \in DOMAIN attrs /\ FirstMapped(attrs["class"], style_map) # "None"
    THEN FirstMapped(attrs["class"], style_map)
    ELSE TagOverride(tag, tag_style_overrides)

\* utils.check_style_exists
check_style_exists(document_styles, style_name) == style_name \in document_styles

\* handle_starttag: custom_style, None when the document has no such style
CustomStyle(style) ==
    IF style # "None" /\ ~check_style_exists(DocumentStyles, style) THEN "None" ELSE style

\* <h1 ...> with a style map and tag overrides
GetWordStyle ==
    \E attrs \in ElementAttrs, style_map \in StyleMaps, tag_style_overrides \in TagOverrides :
        /\ calls["first"] = NoCall
        /\ calls' = [calls EXCEPT !["first"] =
                        [fn |-> "get_word_style_for_element",
                         attrs |-> attrs, style_map |-> style_map,
                         tag_style_overrides |-> tag_style_overrides,
                         result |-> get_word_style_for_element("h1", attrs, style_map,
                                                               tag_style_overrides),
                         custom_style |->
                            CustomStyle(get_word_style_for_element("h1", attrs, style_map,
                                                                   tag_style_overrides))]]
        /\ UNCHANGED exceptValue

StyleNext == GetWordStyle

\* the classes of a call, and the positions of those the style map maps
CallClasses(call) == IF "class" \in DOMAIN call.attrs THEN call.attrs["class"] ELSE << >>

MappedPositions(call) ==
    { i \in DOMAIN CallClasses(call) : CallClasses(call)[i] \in DOMAIN call.style_map }

\* C23: the style returned is that of the first class of the attribute that the
\* style map maps; without a mapped class it is the tag override, and None without
\* either.  A style the document does not have is dropped, and nothing is raised.
C23_ClassBeforeTagOverride ==
    \A slot \in CallSlots :
        calls[slot].fn = "get_word_style_for_element" =>
            /\ MappedPositions(calls[slot]) # {} =>
                  calls[slot].result
                    = calls[slot].style_map[
                        CallClasses(calls[slot])[
                            CHOOSE i \in MappedPositions(calls[slot]) :
                                \A j \in MappedPositions(calls[slot]) : i <= j]]
            /\ (MappedPositions(calls[slot]) = {}
                    /\ "h1" \in DOMAIN calls[slot].tag_style_overrides) =>
                  calls[slot].result = calls[slot].tag_style_overrides["h1"]
            /\ (MappedPositions(calls[slot]) = {}
                    /\ "h1" \notin DOMAIN calls[slot].tag_style_overrides) =>
                  calls[slot].result = "None"
            /\ calls[slot].custom_style
                  = IF calls[slot].result \in DocumentStyles
                    THEN calls[slot].result ELSE "None"

\* a call where a class and the tag are both mapped, to different styles, and the
\* first mapped class is not the first class
C23_Witness ==
    \E slot \in CallSlots :
        /\ calls[slot].fn = "get_word_style_for_element"
        /\ Cardinality(MappedPositions(calls[slot])) = 1
        /\ 1 \notin MappedPositions(calls[slot])
        /\ "h1" \in DOMAIN calls[slot].tag_style_overrides
        /\ calls[slot].tag_style_overrides["h1"] # calls[slot].result
        /\ calls[slot].result = "Heading 3"

(***************************************************************************)
(* The style lookup under the options styles, style-map and tag-override.  *)
(***************************************************************************)
StyleOptionKeys == {"styles", "style-map", "tag-override"}

\* set_initial_attrs: self.use_styles and self.use_tag_overrides
use_styles(options) == IF ~options["styles"] THEN FALSE ELSE options["style-map"]
use_tag_overrides(options) == options["tag-override"]

\* handle_starttag: custom_style, looked up when either option is on
OptionalStyle(options, tag, attrs, style_map_, tag_style_overrides) ==
    IF use_styles(options) \/ use_tag_overrides(options)
    THEN CustomStyle(get_word_style_for_element(tag, attrs, style_map_,
                                                tag_style_overrides))
    ELSE "None"

\* <h1 ...> with a style map, tag overrides and any setting of the options
GetOptionalStyle ==
    \E options \in [StyleOptionKeys -> BOOLEAN], attrs \in ElementAttrs,
       style_map_ \in StyleMaps, tag_style_overrides \in TagOverrides :
        /\ calls["first"] = NoCall
        /\ calls' = [calls EXCEPT !["first"] =
                        [fn |-> "handle_starttag", options |-> options,
                         attrs |-> attrs, style_map |-> style_map_,
                         tag_style_overrides |-> tag_style_overrides,
                         custom_style |-> OptionalStyle(options, "h1", attrs, style_map_,
                                                        tag_style_overrides)]]
        /\ UNCHANGED exceptValue

StyleOptionsNext == GetOptionalStyle

\* C38 (as claimed): with style-map off the style of the element is none or that of
\* the tag override, never that of a mapped class; with tag-override off it is none
\* or that of a mapped class, never that of the tag override.
C38_OptionsAreIndependent ==
    calls["first"].fn = "handle_starttag" =>
        /\ ~calls["first"].options["style-map"] =>
              calls["first"].custom_style
                \in {"None", TagOverride("h1", calls["first"].tag_style_overrides)}
        /\ ~calls["first"].options["tag-override"] =>
              calls["first"].custom_style
                \in {"None", FirstMapped(CallClasses(calls["first"]),
                                         calls["first"].style_map)}

(***************************************************************************)
(* Spans inside the tags that have a default format.                       *)
(***************************************************************************)
BoldTags == {"b", "strong"}

\* <b> or <strong>
StartBold ==
    \E tag \in BoldTags :
        /\ h.error = "none"
        /\ tag \notin h.tags
        /\ h.span = << >>
        /\ h' = handle_starttag(h, tag, {}, FALSE)
        /\ UNCHANGED <<h_ref, exceptHandler>>

\* </b> or </strong>, after the spans inside it
EndBold ==
    \E tag \in BoldTags :
        /\ h.error = "none"
        /\ tag \in h.tags
        /\ h.span = << >>
        /\ h' = handle_endtag(h, tag)
        /\ UNCHANGED <<h_ref, exceptHandler>>

FontNext == StartBold \/ EndBold \/ StartSpan \/ EndSpan \/ SpanData

\* C27 (as claimed): the weight a span declaration gave to a run is the weight of
\* the run; the bold of an enclosing <b> or <strong> does not replace it.
C27_TagDefaultBelowSpan ==
    [][RunAdded =>
        (ApplySpans(NewRun(<< "a" >>), h.span).bold # "None"
            => LastRun(h').bold = ApplySpans(NewRun(<< "a" >>), h.span).bold)]_vars

\* the paragraphs of the items of ordered lists
OlItems == { i \in DOMAIN paragraphs : paragraphs[i].type = "ol" }

\* C4 (as claimed): the items of two different <ol> elements never carry the same
\* numbering id.
C4_DistinctOlDistinctNumId ==
    \A i, j \in OlItems :
        paragraphs[i].list # paragraphs[j].list
            => paragraphs[i].num_id # paragraphs[j].num_id

\* C5 (as claimed): all the items of one <ol> carry the same numbering id, whatever
\* lies between them.
C5_SameOlSameNumId ==
    \A i, j \in OlItems :
        paragraphs[i].list = paragraphs[j].list
            => paragraphs[i].num_id = paragraphs[j].num_id

(***************************************************************************)
(* <div>, <p>, <pre> and <table> with the text and the comments between    *)
(* them.  A top-level table is converted when it opens and the feed then   *)
(* delivers its subtree, which `input` holds.                              *)
(***************************************************************************)
MaxElements == 2        \* elements open at once, a top-level table the innermost
MaxDocument == 3        \* paragraphs and tables of the document
MaxSubtree == 4         \* tags, texts and comments below a top-level table
MaxTables == 1          \* top-level tables

\* HtmlToDocx(style_map=..., default_paragraph_style="Normal")
style_map == ("a" :> "Heading 2") @@ ("b" :> "Heading 3")
default_paragraph_style == "Normal"

\* the class attribute of an element: none, or one class
BlockAttrs == {EmptyDict} \cup { [class |-> <<c>>] : c \in StyleClasses }

\* the class attribute of a <div>: none, or the class a
DivAttrs == {EmptyDict, [class |-> <<"a">>]}

\* what the feed delivers below a table
Tokens == {"<table>", "</table>", "<div>", "</div>", "data", "comment"}

StartOf(token) ==
    CASE token = "</table>" -> "<table>"
      [] token = "</div>" -> "<div>"
      [] OTHER -> "None"

\* the elements left open by a sequence of tokens; <<"unbalanced">> when an end tag
\* meets no start tag of its own
RECURSIVE OpenAfter(_, _)
OpenAfter(tokens, stack) ==
    IF tokens = << >> THEN stack
    ELSE IF Head(tokens) \in {"<table>", "<div>"}
    THEN OpenAfter(Tail(tokens), Append(stack, Head(tokens)))
    ELSE IF Head(tokens) \in {"</table>", "</div>"}
    THEN IF stack # << >> /\ stack[Len(stack)] = StartOf(Head(tokens))
         THEN OpenAfter(Tail(tokens), SubSeq(stack, 1, Len(stack) - 1))
         ELSE <<"unbalanced">>
    ELSE OpenAfter(Tail(tokens), stack)

\* the soups of a table: the well-formed contents of a <table> element
Subtrees ==
    { soup \in UNION { [1..n -> Tokens] : n \in 0..MaxSubtree } :
        OpenAfter(soup, << >>) = << >> }

\* the tables of the soup that are children of its root
find_children(soup, name) ==
    Cardinality({ i \in DOMAIN soup :
                    /\ soup[i] = "<" \o name \o ">"
                    /\ OpenAfter(SubSeq(soup, 1, i - 1), << >>) = << >> })

\* len(table_soup.find_all('table')): the tables below the root of the soup
find_all(soup, name) ==
    Cardinality({ i \in DOMAIN soup : soup[i] = "<" \o name \o ">" })

\* set_initial_attrs and get_tables: nothing pending, nothing open, an empty document
BlockInit ==
    /\ pending_div_style = "None"
    /\ elements = << >>
    /\ doc = << >>
    /\ paragraph = 0
    /\ tags = {}
    /\ skip = FALSE
    /\ skip_tag = "None"
    /\ instances_to_skip = 0
    /\ table_no = 0
    /\ tables = << >>
    /\ input = << >>
    /\ include_html_comments = FALSE

\* the same with options['html-comments'] set or not
BlockOptionsInit ==
    /\ pending_div_style = "None"
    /\ elements = << >>
    /\ doc = << >>
    /\ paragraph = 0
    /\ tags = {}
    /\ skip = FALSE
    /\ skip_tag = "None"
    /\ instances_to_skip = 0
    /\ table_no = 0
    /\ tables = << >>
    /\ input = << >>
    /\ include_html_comments \in BOOLEAN

\* the feed delivers the token: any token outside a table, the next one of the
\* subtree below a table
Feed(token) ==
    IF input = << >> THEN UNCHANGED input
    ELSE Head(input) = token /\ input' = Tail(input)

\* a paragraph or a table of the document: its runs, and the styles queued on it
\* (paragraph._pending_styles)
Body(tag, style) == [tag |-> tag, style |-> style, runs |-> << >>, _pending_styles |-> << >>]

\* a <p> is open
ParagraphOpen == \E i \in DOMAIN elements : elements[i].tag = "p"

\* a run: its colour, and whether it was made inside the <p> that is open
BlockRun(color) == [color |-> color, in_p |-> ParagraphOpen]

\* the attributes of a <p> or <pre>: a class, or a style with a run-level declaration
ParagraphAttrs == BlockAttrs \cup { [style |-> [color |-> "red"]] }

\* handle_starttag, the end: the style attribute of a <p> is queued on self.paragraph
QueueStyle(body, paragraph_, tag, attrs) ==
    IF "style" \in DOMAIN attrs /\ paragraph_ # 0 /\ tag = "p"
    THEN [body EXCEPT ![paragraph_]._pending_styles = Append(@, attrs["style"])]
    ELSE body

\* _apply_color_paragraph: every run of the paragraph gets the colour
RECURSIVE ApplyPending(_, _)
ApplyPending(runs, styles) ==
    IF styles = << >> THEN runs
    ELSE ApplyPending([i \in DOMAIN runs |-> [runs[i] EXCEPT !.color = styles[1].color]],
                      Tail(styles))

\* handle_endtag, p/pre: the styles queued on self.paragraph are applied to it and
\* deleted
ApplyQueued(body, paragraph_) ==
    IF paragraph_ # 0 /\ body[paragraph_]._pending_styles # << >>
    THEN [body EXCEPT ![paragraph_].runs = ApplyPending(@, body[paragraph_]._pending_styles),
                      ![paragraph_]._pending_styles = << >>]
    ELSE body

\* the runs of the <p> that closes are no longer runs of an open <p>
Closed(body) ==
    [i \in DOMAIN body |->
        [body[i] EXCEPT !.runs = [j \in DOMAIN body[i].runs |->
                                    [body[i].runs[j] EXCEPT !.in_p = FALSE]]]]

\* handle_starttag: custom_style of the element
custom_style(tag, attrs) ==
    CustomStyle(get_word_style_for_element(tag, attrs, style_map, EmptyDict))

\* handle_starttag, p/pre: self.pending_div_style or custom_style or
\* self.default_paragraph_style
style_to_apply(tag, attrs) ==
    IF pending_div_style # "None" THEN pending_div_style
    ELSE IF custom_style(tag, attrs) # "None" THEN custom_style(tag, attrs)
    ELSE default_paragraph_style

\* handle_starttag("div", attrs): nothing while skipping; the style of a mapped
\* class becomes the pending div style; any other <div> starts a paragraph
\* (handle_div)
StartDiv ==
    \E attrs \in DivAttrs :
        /\ Feed("<div>")
        /\ input = << >> => Len(elements) < MaxElements
        /\ \A i \in DOMAIN elements : elements[i].tag \in {"div", "table", "p"}
        /\ elements' = Append(elements, [tag |-> "div",
                                          attrs |-> IF skip THEN EmptyDict ELSE attrs])
        /\ IF skip
           THEN UNCHANGED <<pending_div_style, doc, paragraph, tags>>
           ELSE /\ tags' = tags \cup {"div"}
                /\ IF custom_style("div", attrs) # "None" /\ ~in_li
                   THEN /\ pending_div_style' = custom_style("div", attrs)
                        /\ UNCHANGED <<doc, paragraph>>
                   ELSE /\ Len(doc) < MaxDocument
                        /\ doc' = Append(doc, Body("div", "None"))
                        /\ paragraph' = Len(doc) + 1
                        /\ UNCHANGED pending_div_style
        /\ UNCHANGED <<skip, skip_tag, instances_to_skip, table_no, tables,
                       include_html_comments>>
        /\ UNCHANGED exceptBlock

\* handle_starttag(tag, attrs) for <p> and <pre> outside the tables: outside a list
\* item a new paragraph, with the style to apply
StartParagraphTag ==
    \E tag \in {"p", "pre"}, attrs \in ParagraphAttrs :
        /\ input = << >>
        /\ Len(elements) < MaxElements
        /\ \A i \in DOMAIN elements : elements[i].tag = "div"
        /\ elements' = Append(elements, [tag |-> tag, attrs |-> attrs])
        /\ IF skip
           THEN UNCHANGED <<doc, paragraph, tags>>
           ELSE /\ tags' = tags \cup {tag}
                /\ IF ~in_li
                   THEN /\ Len(doc) < MaxDocument
                        /\ doc' = QueueStyle(Append(doc, Body(tag, style_to_apply(tag, attrs))),
                                             Len(doc) + 1, tag, attrs)
                        /\ paragraph' = Len(doc) + 1
                   ELSE /\ doc' = QueueStyle(doc, paragraph, tag, attrs)
                        /\ UNCHANGED paragraph
        /\ UNCHANGED <<pending_div_style, skipVars>>
        /\ UNCHANGED exceptBlock

\* handle_endtag(tag) for </div>, </p> and </pre>: every </div> clears the pending
\* div style; then nothing while skipping; otherwise </p> and </pre> apply the styles
\* queued on self.paragraph, and the tag leaves self.tags
EndBlockTag ==
    /\ elements # << >>
    /\ elements[Len(elements)].tag # "table"
    /\ Feed("</div>")
    /\ elements' = SubSeq(elements, 1, Len(elements) - 1)
    /\ pending_div_style' = IF elements[Len(elements)].tag = "div"
                            THEN "None" ELSE pending_div_style
    /\ tags' = IF skip THEN tags ELSE tags \ {elements[Len(elements)].tag}
    /\ doc' = IF elements[Len(elements)].tag = "div" THEN doc
              ELSE IF skip THEN Closed(doc)
              ELSE Closed(ApplyQueued(doc, paragraph))
    /\ UNCHANGED paragraph
    /\ UNCHANGED <<skip, skip_tag, instances_to_skip, table_no, tables,
                   include_html_comments>>
    /\ UNCHANGED exceptBlock

BlockNext == StartDiv \/ StartParagraphTag \/ EndBlockTag

(***************************************************************************)
(* Tables, and the skipping of their subtree.                              *)
(***************************************************************************)
\* handle_starttag("table", attrs): nothing while skipping; otherwise handle_table
\* converts self.tables[self.table_no] and starts to skip.  Without such a table
\* the conversion ends with an IndexError.
HandleTableTag(tables_) ==
    IF skip
    THEN UNCHANGED <<doc, tags, skip, skip_tag, instances_to_skip>>
    ELSE /\ table_no < Len(tables_)
         /\ Len(doc) < MaxDocument
         /\ tags' = tags \cup {"table"}
         /\ doc' = Append(doc, Body("table", "None"))
         /\ instances_to_skip' = find_all(tables_[table_no + 1], "table")
         /\ skip_tag' = "table"
         /\ skip' = TRUE

\* a <table> outside every table, with any subtree: get_tables has put its soup in
\* self.tables, which lists those tables in the order of the document
StartTable ==
    \E soup \in Subtrees :
        /\ input = << >>
        /\ Len(elements) < MaxElements
        /\ \A i \in DOMAIN elements : elements[i].tag \in {"div", "head"}
        /\ table_no < MaxTables
        /\ Len(tables) <= MaxTables
        /\ tables' = Append(tables, soup)
        /\ input' = soup \o <<"</table>">>
        /\ elements' = Append(elements, [tag |-> "table", attrs |-> EmptyDict])
        /\ HandleTableTag(tables')
        /\ UNCHANGED <<pending_div_style, paragraph, table_no, include_html_comments>>
        /\ UNCHANGED exceptBlock

\* a <table> below a top-level table
StartNestedTable ==
    /\ input # << >>
    /\ Feed("<table>")
    /\ elements' = Append(elements, [tag |-> "table", attrs |-> EmptyDict])
    /\ HandleTableTag(tables)
    /\ UNCHANGED <<pending_div_style, paragraph, table_no, tables, include_html_comments>>
    /\ UNCHANGED exceptBlock

\* handle_endtag("table"): while skipping, the </table> of a nested table counts
\* instances_to_skip down and the next one ends the skipping; the table index then
\* moves to the next top-level table
EndTable ==
    /\ input # << >>
    /\ Feed("</table>")
    /\ elements[Len(elements)].tag = "table"
    /\ elements' = SubSeq(elements, 1, Len(elements) - 1)
    /\ IF skip /\ skip_tag # "table"
       THEN UNCHANGED <<skip, skip_tag, instances_to_skip, paragraph, table_no, tags>>
       ELSE IF skip /\ instances_to_skip > 0
       THEN /\ instances_to_skip' = instances_to_skip - 1
            /\ UNCHANGED <<skip, skip_tag, paragraph, table_no, tags>>
       ELSE /\ skip' = FALSE
            /\ skip_tag' = "None"
            /\ paragraph' = 0
            /\ table_no' = table_no + 1
            /\ tags' = tags \ {"table"}
            /\ UNCHANGED instances_to_skip
    /\ tables' = [i \in DOMAIN tables |-> IF i <= table_no' THEN << >> ELSE tables[i]]
    /\ UNCHANGED <<pending_div_style, doc, include_html_comments>>
    /\ UNCHANGED exceptBlock

\* handle_data: nothing while skipping; otherwise a run in self.paragraph, which is
\* a new paragraph when there is none
HandleData ==
    /\ IF skip
       THEN UNCHANGED <<doc, paragraph>>
       ELSE IF paragraph = 0
       THEN /\ Len(doc) < MaxDocument
            /\ doc' = Append(doc, [Body("data", "None") EXCEPT
                                        !.runs = <<BlockRun("None")>>])
            /\ paragraph' = Len(doc) + 1
       ELSE /\ Len(doc[paragraph].runs) < MaxRuns
            /\ doc' = [doc EXCEPT ![paragraph].runs = Append(@, BlockRun("None"))]
            /\ UNCHANGED paragraph
    /\ UNCHANGED <<pending_div_style, elements, tags>>

\* a text below a table
Data ==
    /\ input # << >>
    /\ Feed("data")
    /\ HandleData
    /\ UNCHANGED <<skip, skip_tag, instances_to_skip, table_no, tables,
                   include_html_comments>>
    /\ UNCHANGED exceptBlock

\* handle_comment for a comment below a table: with the option html-comments, a paragraph of its own
Comment ==
    /\ input # << >>
    /\ Feed("comment")
    /\ IF include_html_comments
       THEN /\ Len(doc) < MaxDocument
            /\ doc' = Append(doc, [Body("comment", "None") EXCEPT
                                        !.runs = <<BlockRun("green")>>])
            /\ paragraph' = Len(doc) + 1
       ELSE UNCHANGED <<doc, paragraph>>
    /\ UNCHANGED <<pending_div_style, elements, tags>>
    /\ UNCHANGED <<skip, skip_tag, instances_to_skip, table_no, tables,
                   include_html_comments>>
    /\ UNCHANGED exceptBlock

\* a text outside the tables
ParagraphText ==
    /\ input = << >>
    /\ HandleData
    /\ UNCHANGED <<skipVars, exceptBlock>>

QueueNext == StartDiv \/ StartParagraphTag \/ EndBlockTag \/ ParagraphText

SkipNext ==
    \/ StartDiv
    \/ EndBlockTag
    \/ StartTable
    \/ StartNestedTable
    \/ EndTable
    \/ Data
    \/ Comment

\* the open <div> elements whose class is mapped to a style of the document
MappedDivs == { i \in DOMAIN elements : custom_style("div", elements[i].attrs) # "None" }

\* a step that opens a <p> or a <pre>
OpensParagraph ==
    /\ Len(elements') = Len(elements) + 1
    /\ elements'[Len(elements')].tag \in {"p", "pre"}

\* C24 (as claimed): a <p> or <pre> opened outside a list item while a <div> with a
\* mapped class is open gets a paragraph with the style of such a div.
C24_DivStyleUntilDivCloses ==
    [][(OpensParagraph /\ MappedDivs # {}) =>
        /\ Len(doc') = Len(doc) + 1
        /\ \E i \in MappedDivs :
              doc'[Len(doc')].style = custom_style("div", elements[i].attrs)]_vars

\* a step that closes the <p> that is open
ClosesParagraph ==
    /\ elements # << >>
    /\ Len(elements') = Len(elements) - 1
    /\ elements[Len(elements)].tag = "p"

\* C28 (as claimed): when a <p> with a colour in its style attribute closes, every
\* run made since it opened has that colour.
C28_QueuedStylesReachEveryRun ==
    [][(ClosesParagraph /\ "style" \in DOMAIN elements[Len(elements)].attrs) =>
        \A i \in DOMAIN doc : \A j \in DOMAIN doc[i].runs :
            doc[i].runs[j].in_p =>
                doc'[i].runs[j].color = elements[Len(elements)].attrs["style"].color]_vars

\* a table is open
TableOpen == \E i \in DOMAIN elements : elements[i].tag = "table"

\* C25: the converter skips, with skip_tag table, exactly while a table is open:
\* from the <table> of a top-level table through all of its subtree, however many
\* tables it nests and however deep, until the </table> of that top-level table.
C25_SkipThroughNestedTables ==
    /\ skip <=> TableOpen
    /\ skip => skip_tag = "table"
    /\ table_no = Len(tables) - (IF TableOpen THEN 1 ELSE 0)

\* a table with a table in a table has been fed up to its own </table>
C25_Witness ==
    /\ tables # << >>
    /\ tables[Len(tables)] = <<"<table>", "<table>", "</table>", "</table>">>
    /\ input = <<"</table>">>
    /\ skip
    /\ instances_to_skip = 0

\* C26 (as claimed): an event that starts and ends in skip mode changes neither the
\* open-tag record, nor the pending div style, nor the table index, nor the current
\* paragraph, nor the document.
C26_SkippedEventsChangeNothing ==
    [][(skip /\ skip') =>
        /\ tags' = tags
        /\ pending_div_style' = pending_div_style
        /\ table_no' = table_no
        /\ paragraph' = paragraph
        /\ doc' = doc]_vars

(***************************************************************************)
(* One transformer over several conversions, and the child transformers    *)
(* that convert the cells of its tables.  A document is a sequence of      *)
(* elements as str(soup) writes them: <p id=...></p>, <img src=.../> with   *)
(* an image that loads, and tables whose cells hold such elements.         *)
(***************************************************************************)
MaxHtml == 2     \* elements of a document
MaxCells == 1    \* cells of a table

\* what a cell holds: an element with an id, or an image
Items == {"p#id", "img"}
CellHtmls == { <<[tag |-> item, cells |-> << >>]>> : item \in Items }
Elements ==
    { [tag |-> item, cells |-> << >>] : item \in Items }
        \cup { [tag |-> "table", cells |-> cols] :
                    cols \in UNION { [1..n -> CellHtmls] : n \in 1..MaxCells } }
Htmls == UNION { [1..n -> Elements] : n \in 0..MaxHtml }

OptionKeys == {"fix-html", "images", "tables"}
DEFAULT_OPTIONS == [key \in OptionKeys |-> TRUE]

\* HtmlToDocx(): __init__ sets the options and the table style; there is no soup yet
HtmlToDocx ==
    [options |-> DEFAULT_OPTIONS, table_style |-> "None", has_soup |-> FALSE,
     soup |-> << >>, bs |-> TRUE, bookmark_id |-> 0, self_tables |-> << >>,
     self_table_no |-> 0, error |-> "none"]

\* Document(): nothing written
NewDocument == [bookmarks |-> << >>, pictures |-> 0, n_tables |-> 0]

\* copy_settings_from: the table style (and the style maps); not the options
copy_settings_from(self, other) == [self EXCEPT !.table_style = other.table_style]

\* set_initial_attrs: the per-conversion fields start again
set_initial_attrs(self) ==
    [self EXCEPT !.bs = self.options["fix-html"], !.bookmark_id = 0, !.error = "none"]

\* add_bookmark: a bookmarkStart and a bookmarkEnd with self.bookmark_id
add_bookmark(st) ==
    [self |-> [st.self EXCEPT !.bookmark_id = @ + 1],
     doc |-> [st.doc EXCEPT !.bookmarks =
                Append(@, [bookmarkStart |-> st.self.bookmark_id,
                           bookmarkEnd |-> st.self.bookmark_id])]]

\* handle_img: a picture, unless the images option of this transformer is off
InsertPicture(st) ==
    IF st.self.options["images"] THEN [st EXCEPT !.doc.pictures = @ + 1] ELSE st

\* feed of the elements of a cell, or of elements outside tables
RECURSIVE FeedItems(_, _)
FeedItems(st, items) ==
    IF items = << >> THEN st
    ELSE FeedItems(IF Head(items).tag = "p#id" THEN add_bookmark(st) ELSE InsertPicture(st),
                   Tail(items))

\* the tables of the soup, in document order
TablesOf(soup) == SelectSeq(soup, LAMBDA element : element.tag = "table")

\* run_process, first half: the soup when fix-html is on, and get_tables when the
\* tables option is on: without a soup attribute it turns the option off
WithSoup(self, html) ==
    IF self.bs THEN [self EXCEPT !.has_soup = TRUE, !.soup = html] ELSE self

get_tables(self) ==
    IF ~self.has_soup THEN [self EXCEPT !.options["tables"] = FALSE]
    ELSE [self EXCEPT !.self_tables = TablesOf(self.soup), !.self_table_no = 0]

BeforeFeed(self, html) ==
    IF WithSoup(self, html).options["tables"]
    THEN get_tables(WithSoup(self, html)) ELSE WithSoup(self, html)

\* add_html_to_cell on a child transformer: set_initial_attrs, run_process
add_html_to_cell(self, cell_html, document) ==
    FeedItems([self |-> BeforeFeed(set_initial_attrs(self), cell_html), doc |-> document],
              cell_html).doc

\* handle_table, the loop over the cells: one child transformer for each
RECURSIVE ConvertCells(_, _, _)
ConvertCells(self, cols, document) ==
    IF cols = << >> THEN document
    ELSE ConvertCells(self, Tail(cols),
            add_html_to_cell(copy_settings_from(HtmlToDocx, self), Head(cols), document))

\* the cells of a table one after the other
RECURSIVE Flatten(_)
Flatten(cols) == IF cols = << >> THEN << >> ELSE Head(cols) \o Flatten(Tail(cols))

\* <table> ... </table>: handle_table on self.tables[self.table_no], the subtree
\* skipped and table_no moved on; with the tables option off the tags of the table
\* are fed like any other
FeedTable(st, element) ==
    IF ~st.self.options["tables"] THEN FeedItems(st, Flatten(element.cells))
    ELSE IF st.self.self_table_no >= Len(st.self.self_tables)
    THEN [st EXCEPT !.self.error = "IndexError"]
    ELSE [self |-> [st.self EXCEPT !.self_table_no = @ + 1],
          doc |-> ConvertCells(st.self,
                               st.self.self_tables[st.self.self_table_no + 1].cells,
                               [st.doc EXCEPT !.n_tables = @ + 1])]

RECURSIVE Feed_(_, _)
Feed_(st, html) ==
    IF html = << >> \/ st.self.error # "none" THEN st
    ELSE Feed_(IF Head(html).tag = "table" THEN FeedTable(st, Head(html))
               ELSE FeedItems(st, <<Head(html)>>),
               Tail(html))

\* run_process(html) into a new document
run_process(self, html) ==
    Feed_([self |-> BeforeFeed(self, html), doc |-> NewDocument], html)

InstInit ==
    /\ transformer = HtmlToDocx
    /\ outcome = [op |-> "none", html |-> << >>, options |-> DEFAULT_OPTIONS,
                  doc |-> NewDocument, error |-> "none"]

\* parser.options[key] = value, between conversions
SetOption ==
    \E key \in OptionKeys :
        /\ transformer' = [transformer EXCEPT !.options[key] = ~@]
        /\ UNCHANGED outcome
        /\ UNCHANGED exceptInst

\* parse_html_string(html): set_initial_attrs(), run_process(html), return self.doc
ParseHtmlString ==
    \E html \in Htmls :
        /\ transformer' = run_process(set_initial_attrs(transformer), html).self
        /\ outcome' = [op |-> "parse_html_string", html |-> html,
                       options |-> transformer.options,
                       doc |-> run_process(set_initial_attrs(transformer), html).doc,
                       error |-> transformer'.error]
        /\ UNCHANGED exceptInst

InstNext == SetOption \/ ParseHtmlString

\* C36 (as claimed): the bookmarks of the document a conversion gave have pairwise
\* distinct ids, and each bookmarkStart has the id of its bookmarkEnd.
C36_BookmarkIdsDistinct ==
    /\ \A i \in DOMAIN outcome.doc.bookmarks :
          outcome.doc.bookmarks[i].bookmarkStart = outcome.doc.bookmarks[i].bookmarkEnd
    /\ \A i, j \in DOMAIN outcome.doc.bookmarks :
          i # j => outcome.doc.bookmarks[i].bookmarkStart
                        # outcome.doc.bookmarks[j].bookmarkStart

\* C37 (as claimed): a conversion that began with the images option off put no
\* picture into the document, in its table cells or outside them.
C37_NoPictureWhenImagesOff ==
    (outcome.op # "none" /\ ~outcome.options["images"]) => outcome.doc.pictures = 0

\* C39 (as claimed): the document of a conversion, and its error, are those a new
\* transformer with the same options gives for the same HTML.
C39_SameAsNewInstance ==
    outcome.op # "none" =>
        /\ outcome.doc =
              run_process(set_initial_attrs([HtmlToDocx EXCEPT
                                                !.options = outcome.options]),
                          outcome.html).doc
        /\ outcome.error =
              run_process(set_initial_attrs([HtmlToDocx EXCEPT
                                                !.options = outcome.options]),
                          outcome.html).self.error

(***************************************************************************)
(* Tables in and after <head>.                                             *)
(***************************************************************************)
\* handle_starttag("head", attrs): the subtree of <head> is skipped
StartHead ==
    /\ input = << >>
    /\ elements = << >>
    /\ elements' = <<[tag |-> "head", attrs |-> EmptyDict]>>
    /\ IF skip
       THEN UNCHANGED <<skip, skip_tag, instances_to_skip>>
       ELSE /\ skip' = TRUE
            /\ skip_tag' = "head"
            /\ instances_to_skip' = 0
    /\ UNCHANGED <<pending_div_style, doc, paragraph, tags, table_no, tables, input,
                   include_html_comments>>
    /\ UNCHANGED exceptBlock

\* handle_endtag("head"): the skipping ends
EndHead ==
    /\ input = << >>
    /\ elements # << >>
    /\ elements[Len(elements)].tag = "head"
    /\ elements' = SubSeq(elements, 1, Len(elements) - 1)
    /\ IF skip /\ skip_tag # "head"
       THEN UNCHANGED <<skip, skip_tag, instances_to_skip, paragraph>>
       ELSE IF skip /\ instances_to_skip > 0
       THEN /\ instances_to_skip' = instances_to_skip - 1
            /\ UNCHANGED <<skip, skip_tag, paragraph>>
       ELSE /\ skip' = FALSE
            /\ skip_tag' = "None"
            /\ paragraph' = 0
            /\ UNCHANGED instances_to_skip
    /\ UNCHANGED <<pending_div_style, doc, tags, table_no, tables, input,
                   include_html_comments>>
    /\ UNCHANGED exceptBlock

HeadNext ==
    \/ StartHead
    \/ EndHead
    \/ StartTable
    \/ StartNestedTable
    \/ EndTable
    \/ Data
    \/ Comment

\* C35 (as claimed): when the start tag of a table outside every table is handled,
\* self.tables[self.table_no] is that table, the last one the document has shown.
C35_TableIndexIsTheOpenTable ==
    [][(~skip /\ skip' /\ skip_tag' = "table") => table_no + 1 = Len(tables')]_vars

(***************************************************************************)
(* Elements in elements of the same tag name: <b> in <b>, <div> in <div>,  *)
(* with spans and text inside.  `elements` is the path of those open.      *)
(***************************************************************************)
\* the style attribute of a <div>: none, or a colour
DivStyles == {EmptyDict, [color |-> Val("red", "none")]}

\* what a nesting step leaves alone
NestFrame ==
    /\ UNCHANGED <<h_ref, cssVars, listVars, tableVars, borderVars, valueVars, apiVars,
                   usedVars, instVars>>
    /\ UNCHANGED <<pending_div_style, doc, paragraph, tags, skipVars>>

\* <b> or <strong>, at any depth
OpenBold ==
    \E tag \in BoldTags :
        /\ h.error = "none"
        /\ h.span = << >>
        /\ Len(elements) < MaxElements
        /\ h' = handle_starttag(h, tag, {}, FALSE)
        /\ elements' = Append(elements, [tag |-> tag, attrs |-> EmptyDict])
        /\ NestFrame

\* <div> or <div style="color: red">: handle_div starts a paragraph
OpenDiv ==
    \E style \in DivStyles :
        /\ h.error = "none"
        /\ h.span = << >>
        /\ Len(elements) < MaxElements
        /\ Len(h.paragraphs) < MaxParagraphs
        /\ h' = [AddParagraph(handle_starttag(h, "div", {}, FALSE)) EXCEPT
                    !.div_style = style]
        /\ elements' = Append(elements, [tag |-> "div", attrs |-> [style |-> style]])
        /\ NestFrame

\* the end tag of the innermost element
CloseElement ==
    /\ h.error = "none"
    /\ h.span = << >>
    /\ elements # << >>
    /\ h' = handle_endtag(h, elements[Len(elements)].tag)
    /\ elements' = SubSeq(elements, 1, Len(elements) - 1)
    /\ NestFrame

\* <span ...>, </span> and text inside the elements
NestSpan == StartSpan /\ h.span = << >>

NestNext == OpenBold \/ OpenDiv \/ CloseElement \/ NestSpan \/ EndSpan \/ SpanData

\* C33 (as claimed): text inside an open <b> or <strong> is bold, whatever elements
\* opened and closed inside it before the text.
C33_OpenAncestorsStillFormat ==
    [][RunAdded =>
        ((\E i \in DOMAIN elements : elements[i].tag \in BoldTags)
            => LastRun(h').bold = "True")]_vars

\* C34 (as claimed): emitting text, inside a span or not, leaves the style recorded
\* for the open <div> as it was, so later text of the div still receives all of it.
C34_DivStyleUntilClose ==
    [][RunAdded => h'.div_style = h.div_style]_vars

(***************************************************************************)
(* <p> and <pre> among the lists.                                          *)
(***************************************************************************)
\* handle_starttag(tag) for <p> and <pre>, at the top level or in an <li>: a new
\* paragraph unless in_li is set
StartP ==
    \E tag \in {"p", "pre"} :
        /\ Len(open) < MaxDepth
        /\ Parent.tag \in {"body", "li"}
        /\ Len(paragraphs) < MaxItems
        /\ n_elements - Len(paragraphs) < MaxLists
        /\ n_elements' = n_elements + 1
        /\ open' = Append(open, [tag |-> tag, eid |-> n_elements + 1])
        /\ paragraphs' = IF ~in_li
                         THEN Append(paragraphs, [list |-> None, type |-> tag,
                                                  num_id |-> None, ilvl |-> 0])
                         ELSE paragraphs
        /\ UNCHANGED <<tags_list, in_li, list_restart_counter, current_ol_num_id,
                       list_num_ids, num_count>>
        /\ UNCHANGED exceptList

\* handle_endtag(tag) for </p> and </pre>
EndP ==
    /\ open # << >>
    /\ Parent.tag \in {"p", "pre"}
    /\ open' = SubSeq(open, 1, Len(open) - 1)
    /\ UNCHANGED <<tags_list, in_li, list_restart_counter, current_ol_num_id,
                   list_num_ids, num_count, paragraphs, n_elements>>
    /\ UNCHANGED exceptList

ListStart == \E tag \in ListTags : StartTag(tag)

ListEnd == \E tag \in ListTags : EndTag(tag)

ListParagraphNext == ListStart \/ ListEnd \/ StartP \/ EndP

\* a step that opens a <p> or a <pre>
OpensP ==
    /\ Len(open') = Len(open) + 1
    /\ open'[Len(open')].tag \in {"p", "pre"}

\* C29 (as claimed): a <p> or <pre> start tag adds a paragraph to the document if
\* and only if no <li> is open at that point.
C29_NewParagraphIffNoOpenLi ==
    [][OpensP =>
        ((Len(paragraphs') = Len(paragraphs) + 1)
            <=> (\A i \in DOMAIN open : open[i].tag # "li"))]_vars

\* the <ol> elements that are open
OpenOls == { i \in DOMAIN open : open[i].tag = "ol" }

\* C30 (as claimed): _list_num_ids holds entries only for <ol> elements that are
\* open: never more entries than open <ol> elements, and none when no <ol> is open.
C30_CacheOnlyForOpenOl ==
    Cardinality(DOMAIN list_num_ids) <= Cardinality(OpenOls)

(***************************************************************************)
(* The specifications.                                                     *)
(***************************************************************************)
InitCss == CssInit /\ ListInit /\ NoTable /\ BorderInit /\ ValueInit /\ ApiInit /\ UsedInit
        /\ InstInit
        /\ HandlerInit /\ BlockInit
SpecCss == InitCss /\ [][CssNext]_vars

InitList == CssInit /\ ListInit /\ NoTable /\ BorderInit /\ ValueInit /\ ApiInit /\ UsedInit
        /\ InstInit
        /\ HandlerInit /\ BlockInit
SpecList == InitList /\ [][ListNext]_vars

InitTable == CssInit /\ ListInit /\ TableInit /\ BorderInit /\ ValueInit /\ ApiInit /\ UsedInit
        /\ InstInit
        /\ HandlerInit /\ BlockInit
SpecTable == InitTable /\ [][TableNext]_vars

InitBorder == CssInit /\ ListInit /\ NoTable /\ BorderInit /\ ValueInit /\ ApiInit /\ UsedInit
        /\ InstInit
        /\ HandlerInit /\ BlockInit
SpecBorder == InitBorder /\ [][BorderNext]_vars

InitUnit == CssInit /\ ListInit /\ NoTable /\ BorderInit /\ ValueInit /\ ApiInit /\ UsedInit
        /\ InstInit
        /\ HandlerInit /\ BlockInit
SpecUnit == InitUnit /\ [][UnitNext]_vars

InitColor == CssInit /\ ListInit /\ NoTable /\ BorderInit /\ ValueInit /\ ApiInit /\ UsedInit
        /\ InstInit
        /\ HandlerInit /\ BlockInit
SpecColor == InitColor /\ [][ColorNext]_vars

InitApi == CssInit /\ ListInit /\ NoTable /\ BorderInit /\ ValueInit /\ ApiInit /\ UsedInit
        /\ InstInit
        /\ HandlerInit /\ BlockInit
SpecApi == InitApi /\ [][ApiNext]_vars

InitSelective ==
    CssInit /\ ListInit /\ NoTable /\ BorderInit /\ ValueInit /\ ApiInit /\ UsedInit
        /\ InstInit
        /\ HandlerInit /\ BlockInit
SpecSelective == InitSelective /\ [][SelectiveNext]_vars

InitSpan ==
    CssInit /\ ListInit /\ NoTable /\ BorderInit /\ ValueInit /\ ApiInit /\ UsedInit
        /\ InstInit
        /\ HandlerInit /\ BlockInit
SpecSpan == InitSpan /\ [][SpanNext]_vars

InitText ==
    CssInit /\ ListInit /\ NoTable /\ BorderInit /\ ValueInit /\ ApiInit /\ UsedInit
        /\ InstInit
        /\ HandlerInit /\ BlockInit
SpecText == InitText /\ [][TextNext]_vars

InitImg ==
    CssInit /\ ListInit /\ NoTable /\ BorderInit /\ ValueInit /\ ApiInit /\ UsedInit
        /\ InstInit
        /\ OptionsInit /\ BlockInit
SpecImg == InitImg /\ [][ImgNext]_vars

InitImage ==
    CssInit /\ ListInit /\ NoTable /\ BorderInit /\ ValueInit /\ ApiInit /\ UsedInit
        /\ InstInit
        /\ HandlerInit /\ BlockInit
SpecImage == InitImage /\ [][ImageNext]_vars

InitStyle ==
    CssInit /\ ListInit /\ NoTable /\ BorderInit /\ ValueInit /\ ApiInit /\ UsedInit
        /\ InstInit
        /\ HandlerInit /\ BlockInit
SpecStyle == InitStyle /\ [][StyleNext]_vars

InitListParagraph ==
    CssInit /\ ListInit /\ NoTable /\ BorderInit /\ ValueInit /\ ApiInit /\ UsedInit
        /\ InstInit
        /\ HandlerInit /\ BlockInit
SpecListParagraph == InitListParagraph /\ [][ListParagraphNext]_vars

InitBlock ==
    CssInit /\ ListInit /\ NoTable /\ BorderInit /\ ValueInit /\ ApiInit /\ UsedInit
        /\ InstInit
        /\ HandlerInit /\ BlockInit
SpecBlock == InitBlock /\ [][BlockNext]_vars

InitSkip ==
    CssInit /\ ListInit /\ NoTable /\ BorderInit /\ ValueInit /\ ApiInit /\ UsedInit
        /\ InstInit
        /\ HandlerInit /\ BlockOptionsInit
SpecSkip == InitSkip /\ [][SkipNext]_vars

InitFont ==
    CssInit /\ ListInit /\ NoTable /\ BorderInit /\ ValueInit /\ ApiInit /\ UsedInit
        /\ InstInit
        /\ HandlerInit /\ BlockInit
SpecFont == InitFont /\ [][FontNext]_vars

InitQueue ==
    CssInit /\ ListInit /\ NoTable /\ BorderInit /\ ValueInit /\ ApiInit /\ UsedInit
        /\ InstInit
        /\ HandlerInit /\ BlockInit
SpecQueue == InitQueue /\ [][QueueNext]_vars

InitBorderParts ==
    CssInit /\ ListInit /\ NoTable /\ BorderInit /\ ValueInit /\ ApiInit /\ UsedInit
        /\ InstInit
        /\ HandlerInit /\ BlockInit
SpecBorderParts == InitBorderParts /\ [][BorderPartsNext]_vars

InitBorderSides ==
    CssInit /\ ListInit /\ NoTable /\ BorderInit /\ ValueInit /\ ApiInit /\ UsedInit
        /\ InstInit
        /\ HandlerInit /\ BlockInit
SpecBorderSides == InitBorderSides /\ [][BorderSidesNext]_vars

InitHead ==
    CssInit /\ ListInit /\ NoTable /\ BorderInit /\ ValueInit /\ ApiInit /\ UsedInit
        /\ InstInit
        /\ HandlerInit /\ BlockOptionsInit
SpecHead == InitHead /\ [][HeadNext]_vars

InitInst ==
    CssInit /\ ListInit /\ NoTable /\ BorderInit /\ ValueInit /\ ApiInit /\ UsedInit
        /\ InstInit
        /\ HandlerInit /\ BlockInit
SpecInst == InitInst /\ [][InstNext]_vars

InitStyleOptions ==
    CssInit /\ ListInit /\ NoTable /\ BorderInit /\ ValueInit /\ ApiInit /\ UsedInit
        /\ InstInit
        /\ HandlerInit /\ BlockInit
SpecStyleOptions == InitStyleOptions /\ [][StyleOptionsNext]_vars

InitMarkedCss ==
    CssInit /\ ListInit /\ NoTable /\ BorderInit /\ ValueInit /\ ApiInit /\ UsedInit
        /\ InstInit
        /\ HandlerInit /\ BlockInit
SpecMarkedCss == InitMarkedCss /\ [][MarkedCssNext]_vars

InitNest ==
    CssInit /\ ListInit /\ NoTable /\ BorderInit /\ ValueInit /\ ApiInit /\ UsedInit
        /\ InstInit
        /\ HandlerInit /\ BlockInit
SpecNest == InitNest /\ [][NestNext]_vars

InitBorderValue == CssInit /\ ListInit /\ NoTable /\ BorderInit /\ ValueInit /\ ApiInit /\ UsedInit
        /\ InstInit
        /\ HandlerInit /\ BlockInit
SpecBorderValue == InitBorderValue /\ [][BorderValueNext]_vars

====
